---- MODULE Spec2Model ----
(***************************************************************************)
(* The syscall kernel of the FVM (fvm/src/kernel/default.rs): one          *)
(* DefaultKernel per actor invocation, the block registry it owns, and the *)
(* CallManager it borrows (state tree, block store, gas tracker, call      *)
(* stack, transactions).  Every syscall is one action; send and            *)
(* upgrade_actor are split at the point where the callee runs: the call    *)
(* half pushes the child kernel, the child's Exit runs the second half.    *)
(***************************************************************************)
EXTENDS Integers, Sequences, FiniteSets, Bags, TLC

(***************************************************************************)
(* Bounds of the model.                                                    *)
(***************************************************************************)
MaxBlocks == 2          \* capacity of a block registry (MAX_BLOCKS)
MaxBlockSize == 2       \* max_block_size of the machine context, in bytes
MaxDepth == 2           \* max_call_depth, and the gas limit, of specification Spec
GasLimit == 2

(***************************************************************************)
(* Program constants.                                                      *)
(***************************************************************************)
BLAKE2B_256 == 45600    \* 0xb220
NO_DATA_BLOCK_ID == 0
FIRST_ID == 1
INIT_ACTOR_ID == 1
BURNT_FUNDS_ACTOR_ID == 99
IPLD_RAW == 85          \* 0x55
DAG_CBOR == 113         \* 0x71
CBOR == 81              \* 0x51
I32_MAX == 2147483647
INVOKE_FUNC_NAME == "invoke"
UPGRADE_FUNC_NAME == "upgrade"
ALLOWED_CODECS == {CBOR, DAG_CBOR, IPLD_RAW}

Min(a, b) == IF a < b THEN a ELSE b
SaturatingSub(a, b) == IF a < b THEN 0 ELSE a - b

(***************************************************************************)
(* Unsigned 32-bit and 64-bit numbers, kept as two limbs (hi * 2^16 + lo): *)
(* the sums block_read forms do not fit the model checker's integers.      *)
(***************************************************************************)
LIMB == 65536
U32(hi, lo) == [hi |-> hi, lo |-> lo]
U32_MAX == U32(LIMB - 1, LIMB - 1)
\* (a as u64) + (b as u64)
AddU64(a, b) == [hi |-> a.hi + b.hi + ((a.lo + b.lo) \div LIMB), lo |-> (a.lo + b.lo) % LIMB]
\* i32::try_from(x).is_ok()
FitsI32(x) == x.hi < 32768
\* the value of a number that fits an i32
AsInt(x) == x.hi * LIMB + x.lo

(***************************************************************************)
(* Signed 64-bit numbers (ChainEpoch), kept as three limbs of 21 bits with *)
(* the sign in the first: a * 2^42 + b * 2^21 + c.                         *)
(***************************************************************************)
LIMB21 == 2097152
I64(a, b, c) == [a |-> a, b |-> b, c |-> c]
I64_MAX == I64(LIMB21 - 1, LIMB21 - 1, LIMB21 - 1)
I64_MIN == I64(0 - LIMB21, 0, 0)
\* a number between -2^21 and 2^21 as an i64
I64Of(n) == IF n >= 0 THEN I64(0, 0, n) ELSE I64(0 - 1, LIMB21 - 1, LIMB21 + n)
\* x - y as a number: the first limb is out of range when it does not fit
SubI64(x, y) ==
    LET c == x.c - y.c
        borrow_c == IF c < 0 THEN 1 ELSE 0
        b == x.b - y.b - borrow_c
        borrow_b == IF b < 0 THEN 1 ELSE 0
    IN  I64(x.a - y.a - borrow_b, b + borrow_b * LIMB21, c + borrow_c * LIMB21)
FitsI64(x) == x.a >= 0 - LIMB21 /\ x.a < LIMB21
\* i64::checked_sub: [ok, val]
checked_sub(x, y) == [ok |-> FitsI64(SubI64(x, y)), val |-> SubI64(x, y)]
LessI64(x, y) ==
    \/ x.a < y.a
    \/ x.a = y.a /\ x.b < y.b
    \/ x.a = y.a /\ x.b = y.b /\ x.c < y.c

(***************************************************************************)
(* Bytes, CIDs and links.  A byte string is a sequence over 0..3.  In a    *)
(* DAG_CBOR block the bytes 2 and 3 stand for an encoded link (a tag-42    *)
(* CID); in every other codec no links are scanned.  A CID is a version-1  *)
(* CID: codec, multihash code and length, and the digest of the bytes.     *)
(***************************************************************************)
RECURSIVE Blake2b256(_)
\* The digest of a byte string: collision-free on the strings of the model.
Blake2b256(data) ==
    IF data = <<>> THEN 1
    ELSE 4 * Blake2b256(SubSeq(data, 1, Len(data) - 1)) + data[Len(data)]

NewCidV1(codec, digest) ==
    [codec |-> codec, mh_code |-> BLAKE2B_256, mh_len |-> 32, digest |-> digest]

\* The CIDs the link bytes point at: a raw leaf, and a DAG_CBOR node whose
\* only byte is a link to the leaf.
LeafData == <<0>>
NodeData == <<2>>
LeafCid == NewCidV1(IPLD_RAW, Blake2b256(LeafData))
NodeCid == NewCidV1(DAG_CBOR, Blake2b256(NodeData))
LinkTarget(b) == IF b = 2 THEN LeafCid ELSE NodeCid

RECURSIVE ScanLinks(_)
ScanLinks(data) ==
    IF data = <<>> THEN <<>>
    ELSE (IF data[1] >= 2 THEN <<LinkTarget(data[1])>> ELSE <<>>) \o ScanLinks(Tail(data))

\* ipld::scan_for_reachable_links: the links of a block, in order of occurrence.
scan_for_reachable_links(codec, data) ==
    IF codec = DAG_CBOR THEN ScanLinks(data) ELSE <<>>

Range(s) == {s[i] : i \in DOMAIN s}

(***************************************************************************)
(* Block and BlockRegistry (kernel/blocks.rs).                             *)
(***************************************************************************)
BlockNew(codec, data, children) == [codec |-> codec, data |-> data, children |-> children]
BlockStat(blk) == [codec |-> blk.codec, size |-> Len(blk.data)]
NoStat == [codec |-> 0, size |-> 0]
NoBlock == BlockNew(0, <<>>, <<>>)

\* A registry: the blocks by handle (handle FIRST_ID + i - 1 is blocks[i]) and
\* the reachable set.
EmptyRegistry == [blocks |-> <<>>, reachable |-> {}]
is_full(reg) == Len(reg.blocks) = MaxBlocks
is_reachable(reg, k) == k \in reg.reachable
mark_reachable(reg, k) == [reg EXCEPT !.reachable = @ \cup {k}]
HasBlock(reg, id) == id >= FIRST_ID /\ id - FIRST_ID + 1 <= Len(reg.blocks)
GetBlock(reg, id) == reg.blocks[id - FIRST_ID + 1]

\* put_reachable / put_check_reachable: [err, id, reg].
put_inner(reg, blk, mark) ==
    IF is_full(reg) THEN [err |-> "LimitExceeded", id |-> 0, reg |-> reg]
    ELSE IF ~mark /\ \E k \in Range(blk.children) : ~is_reachable(reg, k)
    THEN [err |-> "NotFound", id |-> 0, reg |-> reg]
    ELSE [err |-> "Ok",
          id |-> FIRST_ID + Len(reg.blocks),
          reg |-> [blocks |-> Append(reg.blocks, blk),
                   reachable |-> IF mark THEN reg.reachable \cup Range(blk.children)
                                 ELSE reg.reachable]]
put_reachable(reg, blk) == put_inner(reg, blk, TRUE)
put_check_reachable(reg, blk) == put_inner(reg, blk, FALSE)

(***************************************************************************)
(* The price list.  The tables are supplied by the network; the model      *)
(* keeps one unit per priced step and one more per 8 bytes moved.          *)
(***************************************************************************)
on_get_root == 1
on_set_root == 1
on_self_balance == 1
on_delete_actor == 1
on_block_open_base == 1
on_block_open(size, links) == 1 + (size \div 8)
on_block_create(size, links) == 1 + (size \div 8)
on_block_link(size) == 1 + (size \div 8)
on_block_read(size) == 1 + (size \div 8)
on_block_stat == 1
on_scan_links(links) == links
on_method_invocation == 1
on_value_transfer == 1
on_create_actor == 1
on_actor_event(entries, keys_len, values_len) == 1 + ((keys_len + values_len) \div 8192)
on_verify_seal(vi) == vi.registered_proof
on_get_randomness(lookback) == 1
on_tipset_cid(offset) == IF offset = I64(0, 0, 1) THEN 1 ELSE 2
on_compute_unsealed_sector_cid(proof_type, pieces) == 1
on_verify_post(verify_info) == 1
on_verify_aggregate_seals(aggregate) == 1
on_verify_replica_update(replica) == 1
on_verify_aggregate_signature(num_signers, len) == 1 + num_signers

(***************************************************************************)
(* State.                                                                  *)
(***************************************************************************)
VARIABLES
    kstack,       \* the live kernels, outermost first; the last one holds the CallManager
    call_stack,   \* CallManager: the (actor_id, entrypoint name) frames
    state_tree,   \* CallManager: actor id -> ActorState, or NoActor
    tx_layers,    \* CallManager: the snapshots of the open transactions
    blockstore,   \* the block store: a set of [cid, data]
    gas_used,     \* the gas tracker
    events,       \* CallManager: the events appended so far
    context,      \* the machine context and the gas limit of the message
    last,         \* what the last syscall was given, did and returned
    batch         \* batch_verify_seals: the call under way, or the last one made

vars ==
    <<kstack, call_stack, state_tree, tx_layers, blockstore, gas_used, events, context,
      last, batch>>

NoActor == [exists |-> FALSE]
ActorState(code, state, balance, sequence, delegated) ==
    [exists |-> TRUE, code |-> code, state |-> state, balance |-> balance,
     sequence |-> sequence, delegated_address |-> delegated]

NoCid == NewCidV1(0, 0)

\* The entrypoint a call was made at: Invoke (no old code) or Upgrade{old_code_cid}.
NoEntry == [func |-> "none", old_code_cid |-> "none"]

\* The record of a syscall: its name and arguments, the error ("Ok" on
\* success), the values it returned and the gas charges it made, in order.
\* For a send or upgrade_actor that called, ret is the block the callee
\* returned (NoBlock if none).
NoRes ==
    [op |-> "none", arg |-> <<>>, err |-> "Ok", id |-> NO_DATA_BLOCK_ID, stat |-> NoStat,
     cid |-> NoCid, n |-> 0, copied |-> <<>>, exit_code |-> 0, charges |-> <<>>,
     depth |-> 0, phase |-> "done", entry |-> NoEntry, ret |-> NoBlock]

\* No batch_verify_seals was called yet.
NoBatch == [pc |-> "idle", vis |-> <<>>, items |-> <<>>, running |-> {}, done |-> {},
            out |-> <<>>, res |-> NoRes]

\* The CallManager as the syscalls see it.
CM ==
    [gas |-> gas_used, store |-> blockstore, tree |-> state_tree, events |-> events,
     stack |-> call_stack, layers |-> tx_layers, ctx |-> context]

Top == kstack[Len(kstack)]

Start(k, cm, op, arg) ==
    [k |-> k, cm |-> cm,
     res |-> [NoRes EXCEPT !.op = op, !.arg = arg, !.depth = Len(cm.stack)]]
Fail(o, err) == [o EXCEPT !.res.err = err]
Failed(o) == o.res.err # "Ok"

\* GasTracker::charge_gas: running out of gas uses up the whole limit.
charge_gas(o, name, amount) ==
    LET logged == [o EXCEPT !.res.charges = Append(@, <<name, amount>>)]
    IN  IF o.cm.gas + amount > o.cm.ctx.gas_limit
        THEN [logged EXCEPT !.cm.gas = o.cm.ctx.gas_limit, !.res.err = "OutOfGas"]
        ELSE [logged EXCEPT !.cm.gas = @ + amount]

StoreHas(store, k) == \E e \in store : e.cid = k
StoreGet(store, k) == (CHOOSE e \in store : e.cid = k).data
put_keyed(store, k, data) == {e \in store : e.cid # k} \cup {[cid |-> k, data |-> data]}

(***************************************************************************)
(* SelfOps.                                                                *)
(***************************************************************************)
\* root that returns the state CID without marking it reachable.
root_not_marking(k, cm) ==
    LET o1 == charge_gas(Start(k, cm, "root", <<>>), "OnGetRoot", on_get_root)
    IN  IF Failed(o1) THEN o1
        ELSE IF ~cm.tree[k.actor_id].exists THEN Fail(o1, "IllegalOperation")
        ELSE [o1 EXCEPT !.res.cid = cm.tree[k.actor_id].state]

root(k, cm) ==
    LET o1 == charge_gas(Start(k, cm, "root", <<>>), "OnGetRoot", on_get_root)
    IN  IF Failed(o1) THEN o1
        ELSE IF ~cm.tree[k.actor_id].exists THEN Fail(o1, "IllegalOperation")
        ELSE LET cid == cm.tree[k.actor_id].state
             IN  [o1 EXCEPT !.k.blocks = mark_reachable(@, cid), !.res.cid = cid]

\* set_root without the reachability check.
set_root_unchecked(k, cm, new) ==
    LET o0 == Start(k, cm, "set_root", <<new>>)
        o1 == charge_gas(o0, "OnSetRoot", on_set_root)
    IN  IF k.read_only THEN Fail(o0, "ReadOnly")
        ELSE IF Failed(o1) THEN o1
        ELSE IF ~cm.tree[k.actor_id].exists THEN Fail(o1, "IllegalOperation")
        ELSE [o1 EXCEPT !.cm.tree[k.actor_id].state = new]

\* set_root that writes the state of an actor that is gone as well.
set_root_of_deleted(k, cm, new) ==
    LET o0 == Start(k, cm, "set_root", <<new>>)
        o1 == charge_gas(o0, "OnSetRoot", on_set_root)
    IN  IF k.read_only THEN Fail(o0, "ReadOnly")
        ELSE IF Failed(o1) THEN o1
        ELSE IF ~is_reachable(k.blocks, new) THEN Fail(o1, "NotFound")
        ELSE IF ~cm.tree[k.actor_id].exists
        THEN [o1 EXCEPT !.cm.tree[k.actor_id] = ActorState("codeA", new, 0, 0, "none")]
        ELSE [o1 EXCEPT !.cm.tree[k.actor_id].state = new]

set_root(k, cm, new) ==
    LET o0 == Start(k, cm, "set_root", <<new>>)
        o1 == charge_gas(o0, "OnSetRoot", on_set_root)
    IN  IF k.read_only THEN Fail(o0, "ReadOnly")
        ELSE IF Failed(o1) THEN o1
        ELSE IF ~is_reachable(k.blocks, new) THEN Fail(o1, "NotFound")
        ELSE IF ~cm.tree[k.actor_id].exists THEN Fail(o1, "IllegalOperation")
        ELSE [o1 EXCEPT !.cm.tree[k.actor_id].state = new]

(***************************************************************************)
(* IpldBlockOps.                                                           *)
(***************************************************************************)
\* block_open with the reachability check made after the block is loaded and
\* charged for.
block_open_late_check(k, cm, cid) ==
    LET o1 == charge_gas(Start(k, cm, "block_open", <<cid>>),
                         "OnBlockOpenBase", on_block_open_base)
    IN  IF Failed(o1) THEN o1
        ELSE IF ~StoreHas(cm.store, cid) THEN Fail(o1, "Fatal")
        ELSE
          LET data == StoreGet(cm.store, cid)
              children == scan_for_reachable_links(cid.codec, data)
              o2 == charge_gas(o1, "OnScanIpldLinks", on_scan_links(Len(children)))
              o3 == charge_gas(o2, "OnBlockOpen",
                               on_block_open(Len(data), Len(children)))
              block == BlockNew(cid.codec, data, children)
              p == put_reachable(k.blocks, block)
          IN  IF Failed(o2) THEN o2
              ELSE IF Failed(o3) THEN o3
              ELSE IF ~is_reachable(k.blocks, cid) THEN Fail(o3, "NotFound")
              ELSE IF p.err # "Ok" THEN Fail(o3, p.err)
              ELSE [o3 EXCEPT !.k.blocks = p.reg, !.k.origin = Append(@, "open"),
                              !.res.id = p.id, !.res.stat = BlockStat(block)]

block_open(k, cm, cid) ==
    LET o1 == charge_gas(Start(k, cm, "block_open", <<cid>>),
                         "OnBlockOpenBase", on_block_open_base)
    IN  IF Failed(o1) THEN o1
        ELSE IF ~is_reachable(k.blocks, cid) THEN Fail(o1, "NotFound")
        ELSE IF ~StoreHas(cm.store, cid) THEN Fail(o1, "Fatal")
        ELSE
          LET data == StoreGet(cm.store, cid)
              children == scan_for_reachable_links(cid.codec, data)
              o2 == charge_gas(o1, "OnScanIpldLinks", on_scan_links(Len(children)))
              o3 == charge_gas(o2, "OnBlockOpen",
                               on_block_open(Len(data), Len(children)))
              block == BlockNew(cid.codec, data, children)
              p == put_reachable(k.blocks, block)
          IN  IF Failed(o2) THEN o2
              ELSE IF Failed(o3) THEN o3
              ELSE IF p.err # "Ok" THEN Fail(o3, p.err)
              ELSE [o3 EXCEPT !.k.blocks = p.reg, !.k.origin = Append(@, "open"),
                              !.res.id = p.id, !.res.stat = BlockStat(block)]

\* block_create that takes the block for a leaf: its bytes are not scanned.
block_create_no_scan(k, cm, codec, data) ==
    LET o0 == Start(k, cm, "block_create", <<codec, data>>)
        o2 == charge_gas(o0, "OnBlockCreate", on_block_create(Len(data), 0))
        p == put_check_reachable(k.blocks, BlockNew(codec, data, <<>>))
    IN  IF Len(data) > cm.ctx.max_block_size THEN Fail(o0, "LimitExceeded")
        ELSE IF codec \notin ALLOWED_CODECS THEN Fail(o0, "IllegalCodec")
        ELSE IF Failed(o2) THEN o2
        ELSE IF p.err # "Ok" THEN Fail(o2, p.err)
        ELSE [o2 EXCEPT !.k.blocks = p.reg, !.k.origin = Append(@, "create"),
                        !.res.id = p.id]

\* block_create that registers the block the way block_open does, marking
\* its children reachable instead of requiring them to be.
block_create_marking(k, cm, codec, data) ==
    LET o0 == Start(k, cm, "block_create", <<codec, data>>)
        children == scan_for_reachable_links(codec, data)
        o1 == charge_gas(o0, "OnScanIpldLinks", on_scan_links(Len(children)))
        o2 == charge_gas(o1, "OnBlockCreate", on_block_create(Len(data), Len(children)))
        p == put_reachable(k.blocks, BlockNew(codec, data, children))
    IN  IF Len(data) > cm.ctx.max_block_size THEN Fail(o0, "LimitExceeded")
        ELSE IF codec \notin ALLOWED_CODECS THEN Fail(o0, "IllegalCodec")
        ELSE IF Failed(o1) THEN o1
        ELSE IF Failed(o2) THEN o2
        ELSE IF p.err # "Ok" THEN Fail(o2, p.err)
        ELSE [o2 EXCEPT !.k.blocks = p.reg, !.k.origin = Append(@, "create"),
                        !.res.id = p.id]

\* block_create that, finding the registry full, puts the new block in the
\* place of the newest one and hands out that block's handle again.
block_create_recycling(k, cm, codec, data) ==
    LET o0 == Start(k, cm, "block_create", <<codec, data>>)
        children == scan_for_reachable_links(codec, data)
        o1 == charge_gas(o0, "OnScanIpldLinks", on_scan_links(Len(children)))
        o2 == charge_gas(o1, "OnBlockCreate", on_block_create(Len(data), Len(children)))
        blk == BlockNew(codec, data, children)
        p == put_check_reachable(k.blocks, blk)
        newest == Len(k.blocks.blocks)
    IN  IF Len(data) > cm.ctx.max_block_size THEN Fail(o0, "LimitExceeded")
        ELSE IF codec \notin ALLOWED_CODECS THEN Fail(o0, "IllegalCodec")
        ELSE IF Failed(o1) THEN o1
        ELSE IF Failed(o2) THEN o2
        ELSE IF p.err = "LimitExceeded"
        THEN [o2 EXCEPT !.k.blocks.blocks[newest] = blk, !.k.origin[newest] = "create",
                        !.res.id = FIRST_ID + newest - 1]
        ELSE IF p.err # "Ok" THEN Fail(o2, p.err)
        ELSE [o2 EXCEPT !.k.blocks = p.reg, !.k.origin = Append(@, "create"),
                        !.res.id = p.id]

block_create(k, cm, codec, data) ==
    LET o0 == Start(k, cm, "block_create", <<codec, data>>)
        children == scan_for_reachable_links(codec, data)
        o1 == charge_gas(o0, "OnScanIpldLinks", on_scan_links(Len(children)))
        o2 == charge_gas(o1, "OnBlockCreate", on_block_create(Len(data), Len(children)))
        blk == BlockNew(codec, data, children)
        p == put_check_reachable(k.blocks, blk)
    IN  IF Len(data) > cm.ctx.max_block_size THEN Fail(o0, "LimitExceeded")
        ELSE IF codec \notin ALLOWED_CODECS THEN Fail(o0, "IllegalCodec")
        ELSE IF Failed(o1) THEN o1
        ELSE IF Failed(o2) THEN o2
        ELSE IF p.err # "Ok" THEN Fail(o2, p.err)
        ELSE [o2 EXCEPT !.k.blocks = p.reg, !.k.origin = Append(@, "create"),
                        !.res.id = p.id]

\* block_link that computes the CID and marks it reachable, but does not
\* write the block to the store.
block_link_no_store(k, cm, id, hash_fun, hash_len) ==
    LET o0 == Start(k, cm, "block_link", <<id, hash_fun, hash_len>>)
    IN  IF hash_fun # BLAKE2B_256 \/ hash_len # 32 THEN Fail(o0, "IllegalCid")
        ELSE IF ~HasBlock(k.blocks, id) THEN Fail(o0, "InvalidHandle")
        ELSE
          LET block == GetBlock(k.blocks, id)
              o1 == charge_gas(o0, "OnBlockLink", on_block_link(Len(block.data)))
              cid == NewCidV1(block.codec, Blake2b256(block.data))
          IN  IF Failed(o1) THEN o1
              ELSE [o1 EXCEPT !.k.blocks = mark_reachable(@, cid),
                              !.res.cid = cid]

\* block_link that takes any supported hash function and any length up to
\* the size of the hash.
block_link_any_hash(k, cm, id, hash_fun, hash_len) ==
    LET o0 == Start(k, cm, "block_link", <<id, hash_fun, hash_len>>)
    IN  IF ~HasBlock(k.blocks, id) THEN Fail(o0, "InvalidHandle")
        ELSE
          LET block == GetBlock(k.blocks, id)
              o1 == charge_gas(o0, "OnBlockLink", on_block_link(Len(block.data)))
              cid == [NewCidV1(block.codec, Blake2b256(block.data))
                         EXCEPT !.mh_code = hash_fun, !.mh_len = hash_len]
          IN  IF Failed(o1) THEN o1
              ELSE IF 32 < hash_len THEN Fail(o1, "IllegalCid")
              ELSE [o1 EXCEPT !.cm.store = put_keyed(@, cid, block.data),
                              !.k.blocks = mark_reachable(@, cid),
                              !.res.cid = cid]

block_link(k, cm, id, hash_fun, hash_len) ==
    LET o0 == Start(k, cm, "block_link", <<id, hash_fun, hash_len>>)
    IN  IF hash_fun # BLAKE2B_256 \/ hash_len # 32 THEN Fail(o0, "IllegalCid")
        ELSE IF ~HasBlock(k.blocks, id) THEN Fail(o0, "InvalidHandle")
        ELSE
          LET block == GetBlock(k.blocks, id)
              o1 == charge_gas(o0, "OnBlockLink", on_block_link(Len(block.data)))
              \* Cid::new_v1(block.codec(), hash.truncate(hash_len)), hash by hash_fun
              cid == [NewCidV1(block.codec, Blake2b256(block.data))
                         EXCEPT !.mh_code = hash_fun, !.mh_len = hash_len]
          IN  IF Failed(o1) THEN o1
              ELSE [o1 EXCEPT !.cm.store = put_keyed(@, cid, block.data),
                              !.k.blocks = mark_reachable(@, cid),
                              !.res.cid = cid]

\* block_read whose return value stops at zero instead of going negative.
block_read_saturating(k, cm, id, offset, buflen) ==
    LET o0 == Start(k, cm, "block_read", <<id, offset, buflen>>)
        sum == AddU64(offset, buflen)
    IN  IF ~FitsI32(sum) THEN Fail(o0, "IllegalArgument")
        ELSE IF ~HasBlock(k.blocks, id) THEN Fail(o0, "InvalidHandle")
        ELSE
          LET end == AsInt(sum)
              data == GetBlock(k.blocks, id).data
              start == AsInt(offset)
              to_read == Min(SaturatingSub(Len(data), start), AsInt(buflen))
              o1 == charge_gas(o0, "OnBlockRead", on_block_read(to_read))
          IN  IF Failed(o1) THEN o1
              ELSE [o1 EXCEPT !.res.copied =
                                  IF to_read # 0 THEN SubSeq(data, start + 1, start + to_read)
                                  ELSE <<>>,
                              !.res.n = SaturatingSub(Len(data), end)]

block_read(k, cm, id, offset, buflen) ==
    LET o0 == Start(k, cm, "block_read", <<id, offset, buflen>>)
        sum == AddU64(offset, buflen)
    IN  IF ~FitsI32(sum) THEN Fail(o0, "IllegalArgument")
        ELSE IF ~HasBlock(k.blocks, id) THEN Fail(o0, "InvalidHandle")
        ELSE
          LET end == AsInt(sum)
              data == GetBlock(k.blocks, id).data
              start == AsInt(offset)
              to_read == Min(SaturatingSub(Len(data), start), AsInt(buflen))
              o1 == charge_gas(o0, "OnBlockRead", on_block_read(to_read))
          IN  IF Failed(o1) THEN o1
              ELSE [o1 EXCEPT !.res.copied =
                                  IF to_read # 0 THEN SubSeq(data, start + 1, start + to_read)
                                  ELSE <<>>,
                              !.res.n = Len(data) - end]

block_stat(k, cm, id) ==
    LET o1 == charge_gas(Start(k, cm, "block_stat", <<id>>), "OnBlockStat", on_block_stat)
    IN  IF Failed(o1) THEN o1
        ELSE IF ~HasBlock(k.blocks, id) THEN Fail(o1, "InvalidHandle")
        ELSE [o1 EXCEPT !.res.stat = BlockStat(GetBlock(k.blocks, id))]

(***************************************************************************)
(* CallManager: actors, transfers, transactions and call_actor.            *)
(***************************************************************************)
EXIT_OK == 0
SYS_OUT_OF_GAS == 7
USR_ABORT == 16
METHOD_SEND == 0
METHOD_UPGRADE == 932083
EMPTY_ARR_CID == NewCidV1(DAG_CBOR, Blake2b256(<<>>))

get_actor(cm, id) == cm.tree[id]
set_actor(cm, id, state) == [cm EXCEPT !.tree[id] = state]
delete_actor(cm, id) == [cm EXCEPT !.tree[id] = NoActor]

\* transfer: [err, cm].
transfer(cm, from, to, value) ==
    IF ~cm.tree[from].exists \/ cm.tree[from].balance < value
    THEN [err |-> "InsufficientFunds", cm |-> cm]
    ELSE IF ~cm.tree[to].exists THEN [err |-> "NotFound", cm |-> cm]
    ELSE [err |-> "Ok",
          cm |-> [cm EXCEPT !.tree = [[@ EXCEPT ![from].balance = @ - value]
                                         EXCEPT ![to].balance = @ + value]]]

\* with_transaction, first half: a new layer over the state tree and the events.
begin_transaction(cm) ==
    [cm EXCEPT !.layers = Append(@, [tree |-> cm.tree, events |-> cm.events])]

\* with_transaction, second half: drop the layer, restoring it on revert.
end_transaction(cm, revert) ==
    LET layer == cm.layers[Len(cm.layers)]
        popped == [cm EXCEPT !.layers = SubSeq(@, 1, Len(@) - 1)]
    IN  IF revert THEN [popped EXCEPT !.tree = layer.tree, !.events = layer.events]
        ELSE popped

NoPending == [op |-> "none", arg |-> <<>>]

\* Kernel::new
KernelNew(blocks, origin, caller, actor_id, method, value_received, read_only) ==
    [caller |-> caller, actor_id |-> actor_id, method |-> method,
     value_received |-> value_received, read_only |-> read_only,
     blocks |-> blocks, origin |-> origin, pending |-> NoPending]

\* call_actor up to the point where the callee starts running.  The outcome o
\* is the caller's; the result is o with the error set, or with res.phase
\* "returned" (a bare send: no code runs), or with res.phase "called" and the
\* new kernel in field child.
call_actor(o, from, to, func, method, params, value, read_only) ==
    LET o0 == [o EXCEPT !.res.phase = "returned", !.res.exit_code = EXIT_OK]
        paid == charge_gas(o0, "OnValueTransfer", on_value_transfer)
        moved == transfer(paid.cm, from, to, value)
        o1 == IF value = 0 THEN o0 ELSE [paid EXCEPT !.cm = moved.cm]
        o2 == charge_gas(o1, "OnMethodInvocation", on_method_invocation)
        reg == IF params = NoBlock THEN EmptyRegistry
               ELSE put_reachable(EmptyRegistry, params).reg
        child == KernelNew(reg, IF params = NoBlock THEN <<>> ELSE <<"params">>,
                           from, to, method, value, read_only)
    IN  IF Len(o.cm.stack) >= o.cm.ctx.max_call_depth THEN Fail(o0, "LimitExceeded")
        ELSE IF ~get_actor(o.cm, to).exists THEN Fail(o0, "NotFound")
        ELSE IF value # 0 /\ Failed(paid) THEN paid
        ELSE IF value # 0 /\ moved.err # "Ok" THEN Fail(paid, moved.err)
        ELSE IF func = INVOKE_FUNC_NAME /\ method = METHOD_SEND THEN o1
        ELSE IF Failed(o2) THEN o2
        ELSE [k |-> o2.k,
              cm |-> [o2.cm EXCEPT !.stack = Append(@, <<to, func>>)],
              res |-> [o2.res EXCEPT !.phase = "called"],
              child |-> child]

(***************************************************************************)
(* send.                                                                   *)
(***************************************************************************)
\* send with the slip of taking the child's read_only from the flags alone.
send_flags_only(k, cm, recipient, method, params_id, value, flags_read_only) ==
    LET o0 == Start(k, cm, "send", <<recipient, method, params_id, value, flags_read_only>>)
        from == k.actor_id
        read_only == flags_read_only
        params == IF params_id = NO_DATA_BLOCK_ID THEN NoBlock
                  ELSE GetBlock(k.blocks, params_id)
        tx == [o0 EXCEPT !.cm = begin_transaction(@),
                         !.k.pending = [op |-> "send", arg |-> o0.res.arg]]
        called == call_actor(tx, from, recipient, INVOKE_FUNC_NAME, method, params,
                             value, read_only)
    IN  IF read_only /\ value # 0 THEN Fail(o0, "ReadOnly")
        ELSE IF params_id # NO_DATA_BLOCK_ID /\ ~HasBlock(k.blocks, params_id)
        THEN Fail(o0, "InvalidHandle")
        ELSE IF is_full(k.blocks) THEN Fail(o0, "LimitExceeded")
        ELSE IF called.res.phase = "called" THEN called
        ELSE [called EXCEPT !.cm = end_transaction(@, Failed(called)),
                            !.k.pending = NoPending,
                            !.res.phase = "done"]

\* send that does not look for room in the registry before the call.
send_no_room_check(k, cm, recipient, method, params_id, value, flags_read_only) ==
    LET o0 == Start(k, cm, "send", <<recipient, method, params_id, value, flags_read_only>>)
        from == k.actor_id
        read_only == k.read_only \/ flags_read_only
        params == IF params_id = NO_DATA_BLOCK_ID THEN NoBlock
                  ELSE GetBlock(k.blocks, params_id)
        tx == [o0 EXCEPT !.cm = begin_transaction(@),
                         !.k.pending = [op |-> "send", arg |-> o0.res.arg]]
        called == call_actor(tx, from, recipient, INVOKE_FUNC_NAME, method, params,
                             value, read_only)
    IN  IF read_only /\ value # 0 THEN Fail(o0, "ReadOnly")
        ELSE IF params_id # NO_DATA_BLOCK_ID /\ ~HasBlock(k.blocks, params_id)
        THEN Fail(o0, "InvalidHandle")
        ELSE IF called.res.phase = "called" THEN called
        ELSE [called EXCEPT !.cm = end_transaction(@, Failed(called)),
                            !.k.pending = NoPending,
                            !.res.phase = "done"]

\* send up to the point where the callee runs (or to its end, if it does not).
send(k, cm, recipient, method, params_id, value, flags_read_only) ==
    LET o0 == Start(k, cm, "send", <<recipient, method, params_id, value, flags_read_only>>)
        from == k.actor_id
        read_only == k.read_only \/ flags_read_only
        params == IF params_id = NO_DATA_BLOCK_ID THEN NoBlock
                  ELSE GetBlock(k.blocks, params_id)
        tx == [o0 EXCEPT !.cm = begin_transaction(@),
                         !.k.pending = [op |-> "send", arg |-> o0.res.arg]]
        called == call_actor(tx, from, recipient, INVOKE_FUNC_NAME, method, params,
                             value, read_only)
    IN  IF read_only /\ value # 0 THEN Fail(o0, "ReadOnly")
        ELSE IF params_id # NO_DATA_BLOCK_ID /\ ~HasBlock(k.blocks, params_id)
        THEN Fail(o0, "InvalidHandle")
        ELSE IF is_full(k.blocks) THEN Fail(o0, "LimitExceeded")
        ELSE IF called.res.phase = "called" THEN called
        ELSE [called EXCEPT !.cm = end_transaction(@, Failed(called)),
                            !.k.pending = NoPending,
                            !.res.phase = "done"]

\* send that gives the gas of a rolled-back call back.
send_return_refunds(k, cm, exit_code, value) ==
    LET ended == end_transaction(cm, exit_code # EXIT_OK)
        o0 == [k |-> [k EXCEPT !.pending = NoPending],
               cm |-> IF exit_code # EXIT_OK THEN [ended EXCEPT !.gas = 0] ELSE ended,
               res |-> [NoRes EXCEPT !.op = "send", !.arg = k.pending.arg,
                                     !.depth = Len(cm.stack), !.exit_code = exit_code]]
        p == put_reachable(k.blocks, value)
    IN  IF value = NoBlock THEN o0
        ELSE IF p.err # "Ok" THEN Fail(o0, "Fatal")
        ELSE [o0 EXCEPT !.k.blocks = p.reg, !.k.origin = Append(@, "return"),
                        !.res.id = p.id, !.res.stat = BlockStat(value)]

\* send whose transaction is committed whatever the callee's exit code.
send_return_commits(k, cm, exit_code, value) ==
    LET o0 == [k |-> [k EXCEPT !.pending = NoPending],
               cm |-> end_transaction(cm, FALSE),
               res |-> [NoRes EXCEPT !.op = "send", !.arg = k.pending.arg,
                                     !.depth = Len(cm.stack), !.exit_code = exit_code]]
        p == put_reachable(k.blocks, value)
    IN  IF value = NoBlock THEN o0
        ELSE IF p.err # "Ok" THEN Fail(o0, "Fatal")
        ELSE [o0 EXCEPT !.k.blocks = p.reg, !.k.origin = Append(@, "return"),
                        !.res.id = p.id, !.res.stat = BlockStat(value)]

\* send from the point where the callee has returned: the transaction ends
\* and the return block, if any, goes into the caller's registry.
send_return(k, cm, exit_code, value) ==
    LET o0 == [k |-> [k EXCEPT !.pending = NoPending],
               cm |-> end_transaction(cm, exit_code # EXIT_OK),
               res |-> [NoRes EXCEPT !.op = "send", !.arg = k.pending.arg,
                                     !.depth = Len(cm.stack), !.exit_code = exit_code]]
        p == put_reachable(k.blocks, value)
    IN  IF value = NoBlock THEN o0
        ELSE IF p.err # "Ok" THEN Fail(o0, "Fatal")
        ELSE [o0 EXCEPT !.k.blocks = p.reg, !.k.origin = Append(@, "return"),
                        !.res.id = p.id, !.res.stat = BlockStat(value)]

(***************************************************************************)
(* SelfOps, continued.                                                     *)
(***************************************************************************)
\* current_balance: the outcome, with the balance in res.n.
current_balance(o) ==
    LET o1 == charge_gas(o, "OnSelfBalance", on_self_balance)
        self == get_actor(o.cm, o.k.actor_id)
    IN  IF Failed(o1) THEN o1
        ELSE [o1 EXCEPT !.res.n = IF self.exists THEN self.balance ELSE 0]

\* self_destruct that burns the balance whatever burn_unspent says.
self_destruct_always_burns(k, cm, burn_unspent) ==
    LET o0 == Start(k, cm, "self_destruct", <<burn_unspent>>)
        o1 == charge_gas(o0, "OnDeleteActor", on_delete_actor)
        o2 == current_balance(o1)
        balance == o2.res.n
        burnt == transfer(o2.cm, k.actor_id, BURNT_FUNDS_ACTOR_ID, balance)
        o3 == IF balance # 0 THEN [o2 EXCEPT !.cm = burnt.cm] ELSE o2
    IN  IF k.read_only THEN Fail(o0, "ReadOnly")
        ELSE IF Failed(o1) THEN o1
        ELSE IF Failed(o2) THEN o2
        ELSE IF balance # 0 /\ burnt.err # "Ok" THEN Fail(o2, "Fatal")
        ELSE [o3 EXCEPT !.cm = delete_actor(@, k.actor_id), !.res.n = 0]

\* self_destruct that refuses an actor that is gone.
self_destruct_once(k, cm, burn_unspent) ==
    LET o0 == Start(k, cm, "self_destruct", <<burn_unspent>>)
        o1 == charge_gas(o0, "OnDeleteActor", on_delete_actor)
        o2 == current_balance(o1)
        balance == o2.res.n
        burnt == transfer(o2.cm, k.actor_id, BURNT_FUNDS_ACTOR_ID, balance)
        o3 == IF balance # 0 THEN [o2 EXCEPT !.cm = burnt.cm] ELSE o2
    IN  IF k.read_only THEN Fail(o0, "ReadOnly")
        ELSE IF Failed(o1) THEN o1
        ELSE IF ~get_actor(cm, k.actor_id).exists THEN Fail(o1, "IllegalOperation")
        ELSE IF Failed(o2) THEN o2
        ELSE IF balance # 0 /\ ~burn_unspent THEN Fail(o2, "IllegalOperation")
        ELSE IF balance # 0 /\ burnt.err # "Ok" THEN Fail(o2, "Fatal")
        ELSE [o3 EXCEPT !.cm = delete_actor(@, k.actor_id), !.res.n = 0]

self_destruct(k, cm, burn_unspent) ==
    LET o0 == Start(k, cm, "self_destruct", <<burn_unspent>>)
        o1 == charge_gas(o0, "OnDeleteActor", on_delete_actor)
        o2 == current_balance(o1)
        balance == o2.res.n
        burnt == transfer(o2.cm, k.actor_id, BURNT_FUNDS_ACTOR_ID, balance)
        o3 == IF balance # 0 THEN [o2 EXCEPT !.cm = burnt.cm] ELSE o2
    IN  IF k.read_only THEN Fail(o0, "ReadOnly")
        ELSE IF Failed(o1) THEN o1
        ELSE IF Failed(o2) THEN o2
        ELSE IF balance # 0 /\ ~burn_unspent THEN Fail(o2, "IllegalOperation")
        ELSE IF balance # 0 /\ burnt.err # "Ok" THEN Fail(o2, "Fatal")
        ELSE [o3 EXCEPT !.cm = delete_actor(@, k.actor_id), !.res.n = 0]

(***************************************************************************)
(* ActorOps.                                                               *)
(***************************************************************************)
\* CallManager::create_actor
cm_create_actor(o, code_id, actor_id, delegated_address) ==
    LET o1 == charge_gas(o, "OnCreateActor", on_create_actor)
    IN  IF Failed(o1) THEN o1
        ELSE IF get_actor(o.cm, actor_id).exists THEN Fail(o1, "Forbidden")
        ELSE [o1 EXCEPT !.cm = set_actor(@, actor_id,
                  ActorState(code_id, EMPTY_ARR_CID, 0, 0, delegated_address))]

\* create_actor with the slip of leaving out the read-only check.
create_actor_unchecked(k, cm, code_id, actor_id, delegated_address) ==
    LET o0 == Start(k, cm, "create_actor", <<code_id, actor_id, delegated_address>>)
        is_allowed_to_create_actor == k.actor_id = INIT_ACTOR_ID
    IN  IF ~is_allowed_to_create_actor THEN Fail(o0, "Forbidden")
        ELSE cm_create_actor(o0, code_id, actor_id, delegated_address)

\* create_actor that looks at read_only before it looks at who is calling.
create_actor_read_only_first(k, cm, code_id, actor_id, delegated_address) ==
    LET o0 == Start(k, cm, "create_actor", <<code_id, actor_id, delegated_address>>)
        is_allowed_to_create_actor == k.actor_id = INIT_ACTOR_ID
    IN  IF k.read_only THEN Fail(o0, "ReadOnly")
        ELSE IF ~is_allowed_to_create_actor THEN Fail(o0, "Forbidden")
        ELSE cm_create_actor(o0, code_id, actor_id, delegated_address)

create_actor(k, cm, code_id, actor_id, delegated_address) ==
    LET o0 == Start(k, cm, "create_actor", <<code_id, actor_id, delegated_address>>)
        is_allowed_to_create_actor == k.actor_id = INIT_ACTOR_ID
    IN  IF ~is_allowed_to_create_actor THEN Fail(o0, "Forbidden")
        ELSE IF k.read_only THEN Fail(o0, "ReadOnly")
        ELSE cm_create_actor(o0, code_id, actor_id, delegated_address)

RECURSIVE IterPosition(_, _)
\* Iterator::position: whether a frame equal to f was found, and what is left
\* of the iterator after the search.
IterPosition(s, f) ==
    IF s = <<>> THEN [found |-> FALSE, rest |-> <<>>]
    ELSE IF Head(s) = f THEN [found |-> TRUE, rest |-> Tail(s)]
    ELSE IterPosition(Tail(s), f)

\* The check with the slip of `&&` for `||`: only a frame that differs in both
\* the actor and the entrypoint is refused.
UpgradeForbiddenBoth(stack, actor_id) ==
    LET position == IterPosition(stack, <<actor_id, INVOKE_FUNC_NAME>>)
    IN  /\ position.found
        /\ \E i \in DOMAIN position.rest :
              /\ position.rest[i][1] # actor_id
              /\ position.rest[i][2] # UPGRADE_FUNC_NAME

\* The check with the slip of starting from the last (self, INVOKE) frame
\* instead of the first.
UpgradeForbiddenLast(stack, actor_id) ==
    LET invokes == {i \in DOMAIN stack : stack[i] = <<actor_id, INVOKE_FUNC_NAME>>}
    IN  /\ invokes # {}
        /\ \E i \in DOMAIN stack :
              /\ \A p \in invokes : p < i
              /\ \/ stack[i][1] # actor_id
                 \/ stack[i][2] # UPGRADE_FUNC_NAME

\* The call-stack check of upgrade_actor: TRUE when the upgrade is forbidden.
UpgradeForbidden(stack, actor_id) ==
    LET position == IterPosition(stack, <<actor_id, INVOKE_FUNC_NAME>>)
    IN  /\ position.found
        /\ \E i \in DOMAIN position.rest :
              \/ position.rest[i][1] # actor_id
              \/ position.rest[i][2] # UPGRADE_FUNC_NAME

\* upgrade_actor with the code swapped before the transaction begins, so that
\* the swap is outside of what a rollback restores.
upgrade_actor_swap_outside(k, cm, new_code_cid, params_id) ==
    LET o0 == Start(k, cm, "upgrade_actor", <<new_code_cid, params_id>>)
        params == IF params_id = NO_DATA_BLOCK_ID THEN NoBlock
                  ELSE GetBlock(k.blocks, params_id)
        state == get_actor(cm, k.actor_id)
        early == IF state.exists
                 THEN [o0 EXCEPT !.cm = set_actor(@, k.actor_id,
                          ActorState(new_code_cid, state.state, state.balance,
                                     state.sequence, "none"))]
                 ELSE o0
        tx == [early EXCEPT !.cm = begin_transaction(@),
                            !.k.pending = [op |-> "upgrade_actor", arg |-> o0.res.arg]]
        code == state.code
        swapped == [tx EXCEPT !.cm = set_actor(@, k.actor_id,
                       ActorState(new_code_cid, state.state, state.balance,
                                  state.sequence, "none")),
                              !.res.entry = [func |-> UPGRADE_FUNC_NAME,
                                             old_code_cid |-> code]]
        called == call_actor(swapped, k.caller, k.actor_id, UPGRADE_FUNC_NAME,
                             METHOD_UPGRADE, params, 0, FALSE)
        rollback(o) == [o EXCEPT !.cm = end_transaction(@, TRUE),
                                 !.k.pending = NoPending,
                                 !.res.phase = "done"]
    IN  IF k.read_only THEN Fail(o0, "ReadOnly")
        ELSE IF UpgradeForbidden(cm.stack, k.actor_id) THEN Fail(o0, "Forbidden")
        ELSE IF params_id # NO_DATA_BLOCK_ID /\ ~HasBlock(k.blocks, params_id)
        THEN Fail(o0, "InvalidHandle")
        ELSE IF is_full(k.blocks) THEN Fail(o0, "LimitExceeded")
        ELSE IF ~state.exists THEN rollback(Fail(tx, "IllegalOperation"))
        ELSE IF called.res.phase = "called" THEN called
        ELSE rollback(called)

\* upgrade_actor that runs the upgrade entrypoint on the old code: the swap is
\* left for after the call.
upgrade_actor_late_swap(k, cm, new_code_cid, params_id) ==
    LET o0 == Start(k, cm, "upgrade_actor", <<new_code_cid, params_id>>)
        params == IF params_id = NO_DATA_BLOCK_ID THEN NoBlock
                  ELSE GetBlock(k.blocks, params_id)
        tx == [o0 EXCEPT !.cm = begin_transaction(@),
                         !.k.pending = [op |-> "upgrade_actor", arg |-> o0.res.arg]]
        state == get_actor(cm, k.actor_id)
        code == state.code
        swapped == [tx EXCEPT !.res.entry = [func |-> UPGRADE_FUNC_NAME,
                                             old_code_cid |-> code]]
        called == call_actor(swapped, k.caller, k.actor_id, UPGRADE_FUNC_NAME,
                             METHOD_UPGRADE, params, 0, FALSE)
        rollback(o) == [o EXCEPT !.cm = end_transaction(@, TRUE),
                                 !.k.pending = NoPending,
                                 !.res.phase = "done"]
    IN  IF k.read_only THEN Fail(o0, "ReadOnly")
        ELSE IF UpgradeForbidden(cm.stack, k.actor_id) THEN Fail(o0, "Forbidden")
        ELSE IF params_id # NO_DATA_BLOCK_ID /\ ~HasBlock(k.blocks, params_id)
        THEN Fail(o0, "InvalidHandle")
        ELSE IF is_full(k.blocks) THEN Fail(o0, "LimitExceeded")
        ELSE IF ~state.exists THEN rollback(Fail(tx, "IllegalOperation"))
        ELSE IF called.res.phase = "called" THEN called
        ELSE rollback(called)

\* upgrade_actor that does not look whether there is room for the return
\* block.
upgrade_actor_no_room_check(k, cm, new_code_cid, params_id) ==
    LET o0 == Start(k, cm, "upgrade_actor", <<new_code_cid, params_id>>)
        params == IF params_id = NO_DATA_BLOCK_ID THEN NoBlock
                  ELSE GetBlock(k.blocks, params_id)
        tx == [o0 EXCEPT !.cm = begin_transaction(@),
                         !.k.pending = [op |-> "upgrade_actor", arg |-> o0.res.arg]]
        state == get_actor(cm, k.actor_id)
        code == state.code
        swapped == [tx EXCEPT !.cm = set_actor(@, k.actor_id,
                       ActorState(new_code_cid, state.state, state.balance,
                                  state.sequence, "none")),
                              !.res.entry = [func |-> UPGRADE_FUNC_NAME,
                                             old_code_cid |-> code]]
        called == call_actor(swapped, k.caller, k.actor_id, UPGRADE_FUNC_NAME,
                             METHOD_UPGRADE, params, 0, FALSE)
        rollback(o) == [o EXCEPT !.cm = end_transaction(@, TRUE),
                                 !.k.pending = NoPending,
                                 !.res.phase = "done"]
    IN  IF k.read_only THEN Fail(o0, "ReadOnly")
        ELSE IF UpgradeForbidden(cm.stack, k.actor_id) THEN Fail(o0, "Forbidden")
        ELSE IF params_id # NO_DATA_BLOCK_ID /\ ~HasBlock(k.blocks, params_id)
        THEN Fail(o0, "InvalidHandle")
        ELSE IF ~state.exists THEN rollback(Fail(tx, "IllegalOperation"))
        ELSE IF called.res.phase = "called" THEN called
        ELSE rollback(called)

\* upgrade_actor up to the point where the upgrade entrypoint runs.
upgrade_actor(k, cm, new_code_cid, params_id) ==
    LET o0 == Start(k, cm, "upgrade_actor", <<new_code_cid, params_id>>)
        params == IF params_id = NO_DATA_BLOCK_ID THEN NoBlock
                  ELSE GetBlock(k.blocks, params_id)
        tx == [o0 EXCEPT !.cm = begin_transaction(@),
                         !.k.pending = [op |-> "upgrade_actor", arg |-> o0.res.arg]]
        state == get_actor(cm, k.actor_id)
        code == state.code
        swapped == [tx EXCEPT !.cm = set_actor(@, k.actor_id,
                       ActorState(new_code_cid, state.state, state.balance,
                                  state.sequence, "none")),
                              !.res.entry = [func |-> UPGRADE_FUNC_NAME,
                                             old_code_cid |-> code]]
        called == call_actor(swapped, k.caller, k.actor_id, UPGRADE_FUNC_NAME,
                             METHOD_UPGRADE, params, 0, FALSE)
        rollback(o) == [o EXCEPT !.cm = end_transaction(@, TRUE),
                                 !.k.pending = NoPending,
                                 !.res.phase = "done"]
    IN  IF k.read_only THEN Fail(o0, "ReadOnly")
        ELSE IF UpgradeForbidden(cm.stack, k.actor_id) THEN Fail(o0, "Forbidden")
        ELSE IF params_id # NO_DATA_BLOCK_ID /\ ~HasBlock(k.blocks, params_id)
        THEN Fail(o0, "InvalidHandle")
        ELSE IF is_full(k.blocks) THEN Fail(o0, "LimitExceeded")
        ELSE IF ~state.exists THEN rollback(Fail(tx, "IllegalOperation"))
        ELSE IF called.res.phase = "called" THEN called
        ELSE rollback(called)

\* upgrade_actor that reports the exit code alone and leaves the returned
\* block behind.
upgrade_return_drops_block(k, cm, exit_code, value) ==
    [k |-> [k EXCEPT !.pending = NoPending],
     cm |-> end_transaction(cm, exit_code # EXIT_OK),
     res |-> [NoRes EXCEPT !.op = "upgrade_actor", !.arg = k.pending.arg,
                           !.depth = Len(cm.stack), !.exit_code = exit_code]]

\* upgrade_actor from the point where the upgrade entrypoint has returned.
upgrade_return(k, cm, exit_code, value) ==
    LET o0 == [k |-> [k EXCEPT !.pending = NoPending],
               cm |-> end_transaction(cm, exit_code # EXIT_OK),
               res |-> [NoRes EXCEPT !.op = "upgrade_actor", !.arg = k.pending.arg,
                                     !.depth = Len(cm.stack), !.exit_code = exit_code]]
        p == put_reachable(k.blocks, value)
    IN  IF value = NoBlock THEN o0
        ELSE IF p.err # "Ok" THEN Fail(o0, p.err)
        ELSE [o0 EXCEPT !.k.blocks = p.reg, !.k.origin = Append(@, "return"),
                        !.res.id = p.id, !.res.stat = BlockStat(value)]

(***************************************************************************)
(* EventOps.                                                               *)
(***************************************************************************)
MAX_NR_ENTRIES == 255
MAX_KEY_LEN == 31
MAX_TOTAL_VALUES_LEN == 8192
FLAGS_ALL == 3          \* FLAG_INDEXED_KEY | FLAG_INDEXED_VALUE

IsCont(b) == b >= 128 /\ b <= 191

\* The length of the UTF-8 sequence that starts at s[i], or 0 if none does.
Utf8SeqLen(s, i) ==
    LET n == Len(s)
        b0 == s[i]
        b(j) == s[i + j]
    IN  IF b0 < 128 THEN 1
        ELSE IF b0 >= 194 /\ b0 <= 223
        THEN (IF i + 1 <= n /\ IsCont(b(1)) THEN 2 ELSE 0)
        ELSE IF b0 >= 224 /\ b0 <= 239
        THEN (IF /\ i + 2 <= n
                 /\ IsCont(b(1)) /\ IsCont(b(2))
                 /\ (b0 = 224 => b(1) >= 160)
                 /\ (b0 = 237 => b(1) <= 159)
              THEN 3 ELSE 0)
        ELSE IF b0 >= 240 /\ b0 <= 244
        THEN (IF /\ i + 3 <= n
                 /\ IsCont(b(1)) /\ IsCont(b(2)) /\ IsCont(b(3))
                 /\ (b0 = 240 => b(1) >= 144)
                 /\ (b0 = 244 => b(1) <= 143)
              THEN 4 ELSE 0)
        ELSE 0

\* std::str::from_utf8(..).is_ok(): the first byte is no continuation byte,
\* every byte that is none starts a sequence, and what follows a sequence is
\* no continuation byte.
from_utf8_ok(s) ==
    /\ s # <<>> => ~IsCont(s[1])
    /\ \A i \in DOMAIN s :
          ~IsCont(s[i]) =>
              LET l == Utf8SeqLen(s, i)
              IN  l # 0 /\ (i + l <= Len(s) => ~IsCont(s[i + l]))

\* str::is_char_boundary, for a 0-based index
is_char_boundary(s, index) ==
    \/ index = 0
    \/ index = Len(s)
    \/ index < Len(s) /\ ~IsCont(s[index + 1])

\* str::get(start..end).is_some()
str_get_ok(s, start, end) ==
    start <= end /\ end <= Len(s) /\ is_char_boundary(s, start) /\ is_char_boundary(s, end)

\* <[u8]>::get(start..end).is_some()
slice_get_ok(s, start, end) == start <= end /\ end <= Len(s)

\* The sequence <<F(lo), ..., F(hi)>>, put together by halves.
RECURSIVE Tabulate(_, _, _)
Tabulate(F(_), lo, hi) ==
    IF lo > hi THEN <<>>
    ELSE IF lo = hi THEN <<F(lo)>>
    ELSE LET mid == (lo + hi) \div 2
         IN  Tabulate(F, lo, mid) \o Tabulate(F, mid + 1, hi)

\* The running sums of a sequence of numbers: sums[i] = s[1] + ... + s[i],
\* by doubling strides.
RECURSIVE RunningSums(_, _)
RunningSums(s, stride) ==
    IF stride >= Len(s) THEN s
    ELSE LET next(i) == s[i] + IF i > stride THEN s[i - stride] ELSE 0
         IN  RunningSums(Tabulate(next, 1, Len(s)), 2 * stride)

\* The loop over the headers: [err, entries, key_offset, val_offset] when it
\* ends or is left.  The offsets on entering iteration i are the sums of the
\* lengths of the headers before i, all of which passed; the loop is left at
\* the first header that fails one of its checks.
ParseEntries(headers, keys, values) ==
    LET n == Len(headers)
        key_len(i) == headers[i].key_len
        val_len(i) == headers[i].val_len
        key_ends == RunningSums(Tabulate(key_len, 1, n), 1)
        val_ends == RunningSums(Tabulate(val_len, 1, n), 1)
        key_offset(i) == IF i = 1 THEN 0 ELSE key_ends[i - 1]
        val_offset(i) == IF i = 1 THEN 0 ELSE val_ends[i - 1]
        check(i) ==
            LET header == headers[i]
            IN  IF header.flags > FLAGS_ALL THEN "IllegalArgument"
                ELSE IF header.key_len > MAX_KEY_LEN THEN "LimitExceeded"
                ELSE IF header.val_len > MAX_TOTAL_VALUES_LEN THEN "IllegalArgument"
                ELSE IF ~str_get_ok(keys, key_offset(i), key_offset(i) + header.key_len)
                THEN "IllegalArgument"
                ELSE IF ~slice_get_ok(values, val_offset(i),
                                      val_offset(i) + header.val_len)
                THEN "IllegalArgument"
                ELSE IF header.codec # IPLD_RAW THEN "IllegalCodec"
                ELSE "Ok"
        failing == {i \in 1..n : check(i) # "Ok"}
        left_at == IF failing = {} THEN n + 1
                   ELSE CHOOSE i \in failing : \A j \in failing : i <= j
        entry(i) ==
            [flags |-> headers[i].flags,
             key |-> SubSeq(keys, key_offset(i) + 1, key_offset(i) + headers[i].key_len),
             codec |-> headers[i].codec,
             value |-> SubSeq(values, val_offset(i) + 1,
                              val_offset(i) + headers[i].val_len)]
    IN  [err |-> IF failing = {} THEN "Ok" ELSE check(left_at),
         entries |-> Tabulate(entry, 1, left_at - 1),
         key_offset |-> key_offset(left_at),
         val_offset |-> val_offset(left_at)]

\* emit_event that stamps the event with the caller of the emitting actor.
emit_event_stamps_caller(k, cm, event_headers, event_keys, event_values) ==
    LET o0 == Start(k, cm, "emit_event", <<event_headers, event_keys, event_values>>)
        o1 == charge_gas(o0, "OnActorEvent",
                         on_actor_event(Len(event_headers), Len(event_keys),
                                        Len(event_values)))
        parsed == ParseEntries(event_headers, event_keys, event_values)
    IN  IF k.read_only THEN Fail(o0, "ReadOnly")
        ELSE IF Failed(o1) THEN o1
        ELSE IF Len(event_headers) > MAX_NR_ENTRIES THEN Fail(o1, "LimitExceeded")
        ELSE IF Len(event_values) > MAX_TOTAL_VALUES_LEN THEN Fail(o1, "LimitExceeded")
        ELSE IF ~from_utf8_ok(event_keys) THEN Fail(o1, "IllegalArgument")
        ELSE IF parsed.err # "Ok" THEN Fail(o1, parsed.err)
        ELSE IF parsed.key_offset # Len(event_keys) THEN Fail(o1, "IllegalArgument")
        ELSE IF parsed.val_offset # Len(event_values) THEN Fail(o1, "IllegalArgument")
        ELSE [o1 EXCEPT !.cm.events =
                 Append(@, [emitter |-> k.caller, entries |-> parsed.entries])]

\* emit_event that takes the entries it can and does not look at what is
\* left of the two buffers.
emit_event_ignores_rest(k, cm, event_headers, event_keys, event_values) ==
    LET o0 == Start(k, cm, "emit_event", <<event_headers, event_keys, event_values>>)
        o1 == charge_gas(o0, "OnActorEvent",
                         on_actor_event(Len(event_headers), Len(event_keys),
                                        Len(event_values)))
        parsed == ParseEntries(event_headers, event_keys, event_values)
    IN  IF k.read_only THEN Fail(o0, "ReadOnly")
        ELSE IF Failed(o1) THEN o1
        ELSE IF Len(event_headers) > MAX_NR_ENTRIES THEN Fail(o1, "LimitExceeded")
        ELSE IF Len(event_values) > MAX_TOTAL_VALUES_LEN THEN Fail(o1, "LimitExceeded")
        ELSE IF ~from_utf8_ok(event_keys) THEN Fail(o1, "IllegalArgument")
        ELSE IF parsed.err # "Ok" THEN Fail(o1, parsed.err)
        ELSE [o1 EXCEPT !.cm.events =
                 Append(@, [emitter |-> k.actor_id, entries |-> parsed.entries])]

\* emit_event with the limits taken one too high: 256 entries, 8193 bytes
\* of values.
emit_event_loose_limits(k, cm, event_headers, event_keys, event_values) ==
    LET o0 == Start(k, cm, "emit_event", <<event_headers, event_keys, event_values>>)
        o1 == charge_gas(o0, "OnActorEvent",
                         on_actor_event(Len(event_headers), Len(event_keys),
                                        Len(event_values)))
        parsed == ParseEntries(event_headers, event_keys, event_values)
    IN  IF k.read_only THEN Fail(o0, "ReadOnly")
        ELSE IF Failed(o1) THEN o1
        ELSE IF Len(event_headers) > MAX_NR_ENTRIES + 1 THEN Fail(o1, "LimitExceeded")
        ELSE IF Len(event_values) > MAX_TOTAL_VALUES_LEN + 1 THEN Fail(o1, "LimitExceeded")
        ELSE IF ~from_utf8_ok(event_keys) THEN Fail(o1, "IllegalArgument")
        ELSE IF parsed.err # "Ok" THEN Fail(o1, parsed.err)
        ELSE IF parsed.key_offset # Len(event_keys) THEN Fail(o1, "IllegalArgument")
        ELSE IF parsed.val_offset # Len(event_values) THEN Fail(o1, "IllegalArgument")
        ELSE [o1 EXCEPT !.cm.events =
                 Append(@, [emitter |-> k.actor_id, entries |-> parsed.entries])]

\* emit_event that looks at the two limits before it charges.
emit_event_limits_first(k, cm, event_headers, event_keys, event_values) ==
    LET o0 == Start(k, cm, "emit_event", <<event_headers, event_keys, event_values>>)
        o1 == charge_gas(o0, "OnActorEvent",
                         on_actor_event(Len(event_headers), Len(event_keys),
                                        Len(event_values)))
        parsed == ParseEntries(event_headers, event_keys, event_values)
    IN  IF k.read_only THEN Fail(o0, "ReadOnly")
        ELSE IF Len(event_headers) > MAX_NR_ENTRIES THEN Fail(o0, "LimitExceeded")
        ELSE IF Len(event_values) > MAX_TOTAL_VALUES_LEN THEN Fail(o0, "LimitExceeded")
        ELSE IF Failed(o1) THEN o1
        ELSE IF ~from_utf8_ok(event_keys) THEN Fail(o1, "IllegalArgument")
        ELSE IF parsed.err # "Ok" THEN Fail(o1, parsed.err)
        ELSE IF parsed.key_offset # Len(event_keys) THEN Fail(o1, "IllegalArgument")
        ELSE IF parsed.val_offset # Len(event_values) THEN Fail(o1, "IllegalArgument")
        ELSE [o1 EXCEPT !.cm.events =
                 Append(@, [emitter |-> k.actor_id, entries |-> parsed.entries])]

emit_event(k, cm, event_headers, event_keys, event_values) ==
    LET o0 == Start(k, cm, "emit_event", <<event_headers, event_keys, event_values>>)
        o1 == charge_gas(o0, "OnActorEvent",
                         on_actor_event(Len(event_headers), Len(event_keys),
                                        Len(event_values)))
        parsed == ParseEntries(event_headers, event_keys, event_values)
    IN  IF k.read_only THEN Fail(o0, "ReadOnly")
        ELSE IF Failed(o1) THEN o1
        ELSE IF Len(event_headers) > MAX_NR_ENTRIES THEN Fail(o1, "LimitExceeded")
        ELSE IF Len(event_values) > MAX_TOTAL_VALUES_LEN THEN Fail(o1, "LimitExceeded")
        ELSE IF ~from_utf8_ok(event_keys) THEN Fail(o1, "IllegalArgument")
        ELSE IF parsed.err # "Ok" THEN Fail(o1, parsed.err)
        ELSE IF parsed.key_offset # Len(event_keys) THEN Fail(o1, "IllegalArgument")
        ELSE IF parsed.val_offset # Len(event_values) THEN Fail(o1, "IllegalArgument")
        ELSE [o1 EXCEPT !.cm.events =
                 Append(@, [emitter |-> k.actor_id, entries |-> parsed.entries])]

(***************************************************************************)
(* The inputs the guest chooses from.                                      *)
(***************************************************************************)
BAD_CODEC == 153        \* a codec outside the allow-list
SHA2_256 == 18          \* a supported hash that is not blake2b-256
ORIGIN_ID == 100        \* the account the message comes from
NEW_ACTOR_ID == 3       \* the id the Init actor hands out
OTHER_ACTOR_ID == 2     \* an actor that is not the Init actor
KernelActors == {INIT_ACTOR_ID, OTHER_ACTOR_ID}
ActorIds == KernelActors \cup {NEW_ACTOR_ID, BURNT_FUNDS_ACTOR_ID}
Codes == {"codeA", "codeB"}
OverSize == [i \in 1..(MaxBlockSize + 1) |-> 1]
CreateInputs ==
    {<<IPLD_RAW, <<1>>>>, <<CBOR, <<2>>>>, <<DAG_CBOR, <<2>>>>, <<DAG_CBOR, <<3>>>>,
     <<BAD_CODEC, <<1>>>>, <<IPLD_RAW, OverSize>>}
HashInputs == {<<BLAKE2B_256, 32>>, <<BLAKE2B_256, 20>>, <<SHA2_256, 32>>}
MissingCid == NewCidV1(IPLD_RAW, Blake2b256(<<1>>))   \* of a block no store has yet
CidInputs(k) == k.blocks.reachable \cup {LeafCid, NodeCid, MissingCid}
HandleInputs(k) == 0..(Len(k.blocks.blocks) + 1)
ReadInputs ==
    {<<U32(0, 0), U32(0, 1)>>, <<U32(0, 1), U32(0, 2)>>, <<U32(0, 1), U32(32767, 65535)>>}
GoodEvent ==
    [headers |-> <<[flags |-> 3, codec |-> IPLD_RAW, key_len |-> 1, val_len |-> 1]>>,
     keys |-> <<97>>, values |-> <<7>>]
BadEvent == [GoodEvent EXCEPT !.values = <<7, 7>>]
EventInputs == {GoodEvent, BadEvent}

(***************************************************************************)
(* Init and the actions.                                                   *)
(***************************************************************************)
InitTree ==
    [id \in ActorIds |->
        IF id = INIT_ACTOR_ID THEN ActorState("codeA", NodeCid, 1, 0, "none")
        ELSE IF id = OTHER_ACTOR_ID THEN ActorState("codeA", NodeCid, 1, 0, "f410")
        ELSE IF id = BURNT_FUNDS_ACTOR_ID THEN ActorState("burnt", EMPTY_ARR_CID, 0, 0, "none")
        ELSE NoActor]

InitStore ==
    {[cid |-> NodeCid, data |-> NodeData], [cid |-> LeafCid, data |-> LeafData],
     [cid |-> EMPTY_ARR_CID, data |-> <<>>]}

\* The state when the executor has constructed the kernel of the message's
\* receiver, with the parameters (if any) preloaded into its registry.
InitAt(params_set, max_call_depth, gas_limit, max_block_size, epochs) ==
    /\ \E a \in KernelActors, params \in params_set :
          /\ kstack =
                <<KernelNew(IF params = NoBlock THEN EmptyRegistry
                            ELSE put_reachable(EmptyRegistry, params).reg,
                            IF params = NoBlock THEN <<>> ELSE <<"params">>,
                            ORIGIN_ID, a, 1, 0, FALSE)>>
          /\ call_stack = <<<<a, INVOKE_FUNC_NAME>>>>
    /\ state_tree = InitTree
    /\ tx_layers = <<>>
    /\ blockstore = InitStore
    /\ gas_used = 0
    /\ events = <<>>
    /\ \E epoch \in epochs :
          context = [max_call_depth |-> max_call_depth, max_block_size |-> max_block_size,
                     gas_limit |-> gas_limit, epoch |-> epoch]
    /\ last = NoRes
    /\ batch = NoBatch

InitWith(params_set, max_call_depth, gas_limit, max_block_size) ==
    InitAt(params_set, max_call_depth, gas_limit, max_block_size, {I64Of(0)})

Init == InitWith({NoBlock}, MaxDepth, GasLimit, MaxBlockSize)

\* The running kernel may make a syscall: the message has not died of a
\* fatal error, and the guest has not been stopped for running out of gas.
Running == kstack # <<>> /\ last.err \notin {"Fatal", "OutOfGas"} /\ batch.pc = "idle"

\* A syscall after which the kernel that called goes on running: the
\* callee's kernel is put under it.
ApplyBelow(o) ==
    /\ kstack' = IF o.res.phase = "called"
                 THEN SubSeq(kstack, 1, Len(kstack) - 1) \o <<o.child, o.k>>
                 ELSE [kstack EXCEPT ![Len(kstack)] = o.k]
    /\ call_stack' = o.cm.stack
    /\ state_tree' = o.cm.tree
    /\ tx_layers' = o.cm.layers
    /\ blockstore' = o.cm.store
    /\ gas_used' = o.cm.gas
    /\ events' = o.cm.events
    /\ last' = o.res
    /\ UNCHANGED <<context, batch>>

\* The state after a syscall of the running kernel with outcome o.
Apply(o) ==
    /\ kstack' = IF o.res.phase = "called"
                 THEN Append([kstack EXCEPT ![Len(kstack)] = o.k], o.child)
                 ELSE [kstack EXCEPT ![Len(kstack)] = o.k]
    /\ call_stack' = o.cm.stack
    /\ state_tree' = o.cm.tree
    /\ tx_layers' = o.cm.layers
    /\ blockstore' = o.cm.store
    /\ gas_used' = o.cm.gas
    /\ events' = o.cm.events
    /\ last' = o.res
    /\ UNCHANGED <<context, batch>>

Root == Running /\ Apply(root(Top, CM))

SetRoot == Running /\ \E new \in CidInputs(Top) : Apply(set_root(Top, CM, new))

BlockOpen == Running /\ \E cid \in CidInputs(Top) : Apply(block_open(Top, CM, cid))

BlockCreateOf(inputs) ==
    Running /\ \E in \in inputs : Apply(block_create(Top, CM, in[1], in[2]))
BlockCreate == BlockCreateOf(CreateInputs)

BlockLinkOf(hashes) ==
    /\ Running
    /\ \E id \in HandleInputs(Top), h \in hashes : Apply(block_link(Top, CM, id, h[1], h[2]))
BlockLink == BlockLinkOf(HashInputs)

BlockReadOf(inputs) ==
    /\ Running
    /\ \E id \in HandleInputs(Top) \ {0}, in \in inputs :
          Apply(block_read(Top, CM, id, in[1], in[2]))
BlockRead == BlockReadOf(ReadInputs)

BlockStatOp == Running /\ \E id \in HandleInputs(Top) \ {0} : Apply(block_stat(Top, CM, id))

\* block_stat of any handle, handle 0 included.
BlockStatAny == Running /\ \E id \in HandleInputs(Top) : Apply(block_stat(Top, CM, id))

SelfDestruct == Running /\ \E burn_unspent \in BOOLEAN : Apply(self_destruct(Top, CM, burn_unspent))

CreateActor ==
    /\ Running
    /\ \E code_id \in Codes : Apply(create_actor(Top, CM, code_id, NEW_ACTOR_ID, "none"))

UpgradeActorOf(codes) ==
    /\ Running
    /\ \E new_code_cid \in codes, params_id \in HandleInputs(Top) :
          Apply(upgrade_actor(Top, CM, new_code_cid, params_id))
UpgradeActor == UpgradeActorOf(Codes)

SendOf(recipients, methods, values, flagss) ==
    /\ Running
    /\ \E recipient \in recipients, method \in methods, params_id \in HandleInputs(Top),
          value \in values, flags_read_only \in flagss :
          Apply(send(Top, CM, recipient, method, params_id, value, flags_read_only))
Send == SendOf(KernelActors \cup {NEW_ACTOR_ID}, {METHOD_SEND, 1}, {0, 1}, BOOLEAN)

EmitEventOf(inputs) ==
    /\ Running
    /\ \E e \in inputs : Apply(emit_event(Top, CM, e.headers, e.keys, e.values))
EmitEvent == EmitEventOf(EventInputs)

\* A return in which the caller takes over the reachable set of the callee.
ExitSharingReachable(codes) ==
    /\ Len(kstack) > 1
    /\ last.err # "Fatal"
    /\ \E exit_code \in codes \cup {SYS_OUT_OF_GAS}, value_id \in 0..Len(Top.blocks.blocks) :
          /\ (last.err = "OutOfGas") = (exit_code = SYS_OUT_OF_GAS)
          /\ exit_code = SYS_OUT_OF_GAS => value_id = NO_DATA_BLOCK_ID
          /\ LET parent == kstack[Len(kstack) - 1]
                 cm == [CM EXCEPT !.stack = SubSeq(@, 1, Len(@) - 1)]
                 value == IF value_id = NO_DATA_BLOCK_ID THEN NoBlock
                          ELSE GetBlock(Top.blocks, value_id)
                 o == IF parent.pending.op = "send"
                      THEN send_return(parent, cm, exit_code, value)
                      ELSE upgrade_return(parent, cm, exit_code, value)
                 shared == [o.k EXCEPT !.blocks.reachable = @ \cup Top.blocks.reachable]
             IN  /\ kstack' = Append(SubSeq(kstack, 1, Len(kstack) - 2), shared)
                 /\ call_stack' = o.cm.stack
                 /\ state_tree' = o.cm.tree
                 /\ tx_layers' = o.cm.layers
                 /\ blockstore' = o.cm.store
                 /\ gas_used' = o.cm.gas
                 /\ events' = o.cm.events
                 /\ last' = [o.res EXCEPT !.ret = value]
                 /\ UNCHANGED <<context, batch>>

\* The guest of the running kernel returns: the kernel is destructured
\* (into_inner), its frame is popped, and the caller's send or upgrade_actor
\* resumes with the exit code and the return block.  A guest that ran out of
\* gas exits with SYS_OUT_OF_GAS and no block.
ExitOf(codes) ==
    /\ Len(kstack) > 1
    /\ last.err # "Fatal"
    /\ \E exit_code \in codes \cup {SYS_OUT_OF_GAS}, value_id \in 0..Len(Top.blocks.blocks) :
          /\ (last.err = "OutOfGas") = (exit_code = SYS_OUT_OF_GAS)
          /\ exit_code = SYS_OUT_OF_GAS => value_id = NO_DATA_BLOCK_ID
          /\ LET parent == kstack[Len(kstack) - 1]
                 cm == [CM EXCEPT !.stack = SubSeq(@, 1, Len(@) - 1)]
                 value == IF value_id = NO_DATA_BLOCK_ID THEN NoBlock
                          ELSE GetBlock(Top.blocks, value_id)
                 o == IF parent.pending.op = "send"
                      THEN send_return(parent, cm, exit_code, value)
                      ELSE upgrade_return(parent, cm, exit_code, value)
             IN  /\ kstack' = Append(SubSeq(kstack, 1, Len(kstack) - 2), o.k)
                 /\ call_stack' = o.cm.stack
                 /\ state_tree' = o.cm.tree
                 /\ tx_layers' = o.cm.layers
                 /\ blockstore' = o.cm.store
                 /\ gas_used' = o.cm.gas
                 /\ events' = o.cm.events
                 /\ last' = [o.res EXCEPT !.ret = value]
                 /\ UNCHANGED <<context, batch>>
Exit == ExitOf({EXIT_OK, USR_ABORT})

Next ==
    \/ Root
    \/ SetRoot
    \/ BlockOpen
    \/ BlockCreate
    \/ BlockLink
    \/ BlockRead
    \/ BlockStatOp
    \/ SelfDestruct
    \/ CreateActor
    \/ UpgradeActor
    \/ Send
    \/ EmitEvent
    \/ Exit

Spec == Init /\ [][Next]_vars

(***************************************************************************)
(* SpecCalls: the call structure.  Deeper call stacks and more gas; of the *)
(* block operations only the creation of one raw block.                    *)
(***************************************************************************)
CallsMaxDepth == 3
CallsGasLimit == 3

InitCalls == InitWith({NoBlock}, CallsMaxDepth, CallsGasLimit, MaxBlockSize)

NextCalls ==
    \/ Root
    \/ SetRoot
    \/ SelfDestruct
    \/ CreateActor
    \/ UpgradeActorOf({"codeB"})
    \/ SendOf(KernelActors, {METHOD_SEND, 1}, {0, 1}, BOOLEAN)
    \/ EmitEventOf({GoodEvent})
    \/ ExitOf({EXIT_OK, USR_ABORT})

SpecCalls == InitCalls /\ [][NextCalls]_vars

(***************************************************************************)
(* SpecStack: the call stack alone.  Only the operations that push and pop *)
(* frames, on deeper stacks.                                               *)
(***************************************************************************)
StackMaxDepth == 4
StackGasLimit == 4

InitStack == InitWith({NoBlock}, StackMaxDepth, StackGasLimit, MaxBlockSize)

NextStack ==
    \/ UpgradeActorOf({"codeB"})
    \/ SendOf(KernelActors, {1}, {0}, BOOLEAN)
    \/ ExitOf({EXIT_OK, USR_ABORT})

SpecStack == InitStack /\ [][NextStack]_vars

(***************************************************************************)
(* SpecBlocks: the block registry.  All block operations; the receiver of  *)
(* the message calls other actors and upgrades itself, its callees do not  *)
(* call further, so blocks travel one level down and back.                 *)
(***************************************************************************)
BlocksGasLimit == 4
ParamsNode == BlockNew(DAG_CBOR, NodeData, scan_for_reachable_links(DAG_CBOR, NodeData))

InitBlocks == InitWith({NoBlock, ParamsNode}, MaxDepth, BlocksGasLimit, MaxBlockSize)

\* The running kernel is the receiver of the message: no transaction is open.
TopLevel == tx_layers = <<>>

\* The blocks created: a raw leaf, and blocks whose one byte reads as a link
\* under DAG_CBOR (to the leaf, to the node) and as plain data under CBOR.
BlocksCreateInputs ==
    {<<IPLD_RAW, <<1>>>>, <<CBOR, <<2>>>>, <<DAG_CBOR, <<2>>>>, <<DAG_CBOR, <<3>>>>}

NextBlocks ==
    \/ Root
    \/ SetRoot
    \/ BlockOpen
    \/ BlockCreateOf(BlocksCreateInputs)
    \/ BlockLinkOf({<<BLAKE2B_256, 32>>})
    \/ BlockStatOp
    \/ TopLevel /\ UpgradeActorOf({"codeB"})
    \/ TopLevel /\ SendOf({OTHER_ACTOR_ID}, {1}, {0}, {FALSE})
    \/ ExitOf({EXIT_OK})

SpecBlocks == InitBlocks /\ [][NextBlocks]_vars

(***************************************************************************)
(* SpecRead: block_read on the parameters block, over offsets and buffer   *)
(* lengths on both sides of every boundary of its arithmetic.              *)
(***************************************************************************)
ReadBlockSize == 10
ReadGasLimit == 2
TenBytes == [i \in 1..ReadBlockSize |-> i % 4]
ParamsRead == {BlockNew(IPLD_RAW, SubSeq(TenBytes, 1, n), <<>>) : n \in {0, 1, ReadBlockSize}}
ReadNumbers ==
    {U32(0, 0), U32(0, 1), U32(0, 4), U32(0, 9), U32(0, 10), U32(0, 11), U32(0, 20),
     U32(0, LIMB - 1), U32(1, 0), U32(32767, LIMB - 5), U32(32767, LIMB - 1),
     U32(32768, 0), U32_MAX}

InitRead == InitWith(ParamsRead, MaxDepth, ReadGasLimit, ReadBlockSize)

NextRead ==
    \/ BlockReadOf(ReadNumbers \X ReadNumbers)
    \/ BlockStatOp

SpecRead == InitRead /\ [][NextRead]_vars

(***************************************************************************)
(* SpecTx: transactions.  The operations that change the state tree, calls *)
(* that move value, upgrades to either code, and callees that return or    *)
(* abort.                                                                  *)
(***************************************************************************)
TxGasLimit == 3

InitTx == InitWith({NoBlock}, MaxDepth, TxGasLimit, MaxBlockSize)

NextTx ==
    \/ Root
    \/ SetRoot
    \/ SelfDestruct
    \/ CreateActor
    \/ UpgradeActorOf(Codes)
    \/ SendOf(KernelActors, {METHOD_SEND, 1}, {0, 1}, {FALSE})
    \/ ExitOf({EXIT_OK, USR_ABORT})

SpecTx == InitTx /\ [][NextTx]_vars

(***************************************************************************)
(* SpecHandles: the handles of the registries.  Every operation that hands *)
(* out a handle (block_open, block_create, send, upgrade_actor) and the    *)
(* two that answer from one (block_stat, block_read), up to and beyond the *)
(* capacity of the registry; calls are made by the receiver of the message *)
(* alone.                                                                  *)
(***************************************************************************)
HandlesGasLimit == 4

InitHandles == InitWith({NoBlock, ParamsNode}, MaxDepth, HandlesGasLimit, MaxBlockSize)

\* The blocks created: a raw block and a CBOR block, of different stat.
HandlesCreateInputs == {<<IPLD_RAW, <<1>>>>, <<CBOR, <<2>>>>}

\* A read of a whole block.
HandlesReadInputs == {<<U32(0, 0), U32(0, MaxBlockSize)>>}

NextHandles ==
    \/ BlockOpen
    \/ BlockCreateOf(HandlesCreateInputs)
    \/ BlockStatAny
    \/ BlockReadOf(HandlesReadInputs)
    \/ TopLevel /\ UpgradeActorOf({"codeB"})
    \/ TopLevel /\ SendOf({OTHER_ACTOR_ID}, {1}, {0, 1}, {FALSE})
    \/ ExitOf({EXIT_OK})

SpecHandles == InitHandles /\ [][NextHandles]_vars

(***************************************************************************)
(* SpecDestruct: self_destruct, by the receiver of the message and by the  *)
(* actors it calls, itself included, with gas for two of them in a row.    *)
(***************************************************************************)
DestructGasLimit == 4

InitDestruct == InitWith({NoBlock}, MaxDepth, DestructGasLimit, MaxBlockSize)

NextDestruct ==
    \/ SelfDestruct
    \/ SendOf(KernelActors, {METHOD_SEND, 1}, {0, 1}, BOOLEAN)
    \/ ExitOf({EXIT_OK, USR_ABORT})

SpecDestruct == InitDestruct /\ [][NextDestruct]_vars

(***************************************************************************)
(* SpecEvents: emit_event at its limits.  Events with 255 and 256 entries, *)
(* with 8192 and 8193 bytes of values, with keys of 31 and 32 bytes, and   *)
(* events whose headers do and do not add up to the two buffers.           *)
(***************************************************************************)
EventsGasLimit == 2

Header(flags, codec, key_len, val_len) ==
    [flags |-> flags, codec |-> codec, key_len |-> key_len, val_len |-> val_len]
Event(headers, keys, values) == [headers |-> headers, keys |-> keys, values |-> values]
\* The sequence of n copies of b.
RECURSIVE Bytes(_, _)
Bytes(n, b) ==
    IF n = 0 THEN <<>>
    ELSE IF n = 1 THEN <<b>>
    ELSE LET half == Bytes(n \div 2, b)
         IN  half \o half \o Bytes(n % 2, b)

\* At the limits and one past them.
Entries255 == Event(Bytes(MAX_NR_ENTRIES, Header(0, IPLD_RAW, 0, 0)), <<>>, <<>>)
Entries256 == Event(Bytes(MAX_NR_ENTRIES + 1, Header(0, IPLD_RAW, 0, 0)), <<>>, <<>>)
Values8192 ==
    Event(<<Header(0, IPLD_RAW, 0, MAX_TOTAL_VALUES_LEN)>>, <<>>,
          Bytes(MAX_TOTAL_VALUES_LEN, 7))
Values8193 ==
    Event(<<Header(0, IPLD_RAW, 0, MAX_TOTAL_VALUES_LEN + 1)>>, <<>>,
          Bytes(MAX_TOTAL_VALUES_LEN + 1, 7))
Key31 == Event(<<Header(1, IPLD_RAW, MAX_KEY_LEN, 0)>>, Bytes(MAX_KEY_LEN, 97), <<>>)
Key32 == Event(<<Header(1, IPLD_RAW, MAX_KEY_LEN + 1, 0)>>, Bytes(MAX_KEY_LEN + 1, 97), <<>>)
\* 255 entries of which the last has a key of 32 bytes.
Entries255Key32 ==
    Event(Bytes(MAX_NR_ENTRIES - 1, Header(0, IPLD_RAW, 0, 0))
             \o <<Header(0, IPLD_RAW, MAX_KEY_LEN + 1, 0)>>,
          Bytes(MAX_KEY_LEN + 1, 97), <<>>)
\* A key of 32 bytes under flags that are not flags.
Key32BadFlags ==
    Event(<<Header(FLAGS_ALL + 1, IPLD_RAW, MAX_KEY_LEN + 1, 0)>>,
          Bytes(MAX_KEY_LEN + 1, 97), <<>>)

\* Headers against buffers: two entries that add up; keys left over; values
\* left over (BadEvent); a key and a value that run past the end; a first
\* entry that takes what the second needs.
TwoEntries ==
    Event(<<Header(1, IPLD_RAW, 1, 1), Header(2, IPLD_RAW, 2, 0)>>, <<97, 98, 99>>, <<7>>)
KeysLeftOver == Event(<<Header(1, IPLD_RAW, 1, 1)>>, <<97, 98>>, <<7>>)
KeyPastEnd == Event(<<Header(1, IPLD_RAW, 2, 1)>>, <<97>>, <<7>>)
ValuePastEnd == Event(<<Header(1, IPLD_RAW, 1, 2)>>, <<97>>, <<7>>)
SecondPastEnd ==
    Event(<<Header(1, IPLD_RAW, 1, 1), Header(1, IPLD_RAW, 1, 1)>>, <<97, 98>>, <<7>>)
NoHeaders == Event(<<>>, <<>>, <<7>>)

LimitEvents ==
    <<Entries255, Entries256, Values8192, Values8193, Key31, Key32, Entries255Key32,
      Key32BadFlags>>
PartitionEvents ==
    <<GoodEvent, BadEvent, TwoEntries, KeysLeftOver, KeyPastEnd, ValuePastEnd,
      SecondPastEnd, NoHeaders>>

\* emit_event of one of a list of events.
EmitEventFrom(list) ==
    /\ Running
    /\ \E i \in DOMAIN list :
          Apply(emit_event(Top, CM, list[i].headers, list[i].keys, list[i].values))

InitEvents == InitWith({NoBlock}, MaxDepth, EventsGasLimit, MaxBlockSize)

NextEvents == EmitEventFrom(LimitEvents \o PartitionEvents)

SpecEvents == InitEvents /\ [][NextEvents]_vars

(***************************************************************************)
(* SpecLog: the event log across calls.  The receiver of the message and   *)
(* the actors it calls emit events, good and bad; callees return or abort. *)
(***************************************************************************)
LogGasLimit == 3

InitLog == InitWith({NoBlock}, MaxDepth, LogGasLimit, MaxBlockSize)

NextLog ==
    \/ EmitEventFrom(<<GoodEvent, TwoEntries, BadEvent>>)
    \/ SendOf(KernelActors, {1}, {0}, BOOLEAN)
    \/ ExitOf({EXIT_OK, USR_ABORT})

SpecLog == InitLog /\ [][NextLog]_vars

(***************************************************************************)
(* NetworkOps::tipset_cid and RandomnessOps.  What the extern answers is   *)
(* part of the input: [err, val].                                          *)
(***************************************************************************)
\* tipset_cid that also looks up the current epoch.
tipset_cid_of_current(k, cm, epoch, extern) ==
    LET o0 == Start(k, cm, "tipset_cid", <<epoch, extern>>)
        offset == SubI64(cm.ctx.epoch, epoch)
        o1 == charge_gas(o0, "OnTipsetCid", on_tipset_cid(offset))
    IN  IF LessI64(epoch, I64Of(0)) THEN Fail(o0, "IllegalArgument")
        ELSE IF LessI64(offset, I64Of(0)) THEN Fail(o0, "IllegalArgument")
        ELSE IF Failed(o1) THEN o1
        ELSE IF extern.err THEN Fail(o1, "Fatal")
        ELSE [o1 EXCEPT !.res.cid = extern.val]

\* tipset_cid; the subtraction is of two numbers that are not negative, so
\* the difference fits.
tipset_cid(k, cm, epoch, extern) ==
    LET o0 == Start(k, cm, "tipset_cid", <<epoch, extern>>)
        offset == SubI64(cm.ctx.epoch, epoch)
        o1 == charge_gas(o0, "OnTipsetCid", on_tipset_cid(offset))
    IN  IF LessI64(epoch, I64Of(0)) THEN Fail(o0, "IllegalArgument")
        ELSE IF LessI64(offset, I64Of(0)) THEN Fail(o0, "IllegalArgument")
        ELSE IF offset = I64Of(0) THEN Fail(o0, "IllegalArgument")
        ELSE IF Failed(o1) THEN o1
        ELSE IF extern.err THEN Fail(o1, "Fatal")
        ELSE [o1 EXCEPT !.res.cid = extern.val]

\* The body the two randomness calls share.
get_randomness(k, cm, op, rand_epoch, extern) ==
    LET o0 == Start(k, cm, op, <<rand_epoch, extern>>)
        lookback == checked_sub(cm.ctx.epoch, rand_epoch)
        o1 == charge_gas(o0, "OnGetRandomness", on_get_randomness(lookback.val))
    IN  IF ~lookback.ok THEN Fail(o0, "IllegalArgument")
        ELSE IF Failed(o1) THEN o1
        ELSE IF extern.err THEN Fail(o1, "IllegalArgument")
        ELSE [o1 EXCEPT !.res.copied = extern.val]

get_randomness_from_tickets(k, cm, rand_epoch, extern) ==
    get_randomness(k, cm, "get_randomness_from_tickets", rand_epoch, extern)

get_randomness_from_beacon(k, cm, rand_epoch, extern) ==
    get_randomness(k, cm, "get_randomness_from_beacon", rand_epoch, extern)

(***************************************************************************)
(* SpecChain: lookups of tipsets and randomness at past, current, future   *)
(* and extreme epochs, from a current epoch of 0, 1 or 3.                  *)
(***************************************************************************)
ChainGasLimit == 3

CurrentEpochs == {I64Of(0), I64Of(1), I64Of(3)}
EpochInputs == {I64_MIN, I64Of(0 - 1), I64Of(0), I64Of(1), I64Of(2), I64Of(3), I64Of(4), I64_MAX}

\* The externs: an error, or the value looked up.
ExternCids == {[err |-> TRUE, val |-> NoCid], [err |-> FALSE, val |-> LeafCid]}
ExternRandomness == {[err |-> TRUE, val |-> <<>>], [err |-> FALSE, val |-> <<1, 2>>]}

TipsetCid ==
    /\ Running
    /\ \E epoch \in EpochInputs, extern \in ExternCids : Apply(tipset_cid(Top, CM, epoch, extern))

GetRandomnessFromTickets ==
    /\ Running
    /\ \E rand_epoch \in EpochInputs, extern \in ExternRandomness :
          Apply(get_randomness_from_tickets(Top, CM, rand_epoch, extern))

GetRandomnessFromBeacon ==
    /\ Running
    /\ \E rand_epoch \in EpochInputs, extern \in ExternRandomness :
          Apply(get_randomness_from_beacon(Top, CM, rand_epoch, extern))

InitChain == InitAt({NoBlock}, MaxDepth, ChainGasLimit, MaxBlockSize, CurrentEpochs)

NextChain ==
    \/ TipsetCid
    \/ GetRandomnessFromTickets
    \/ GetRandomnessFromBeacon

SpecChain == InitChain /\ [][NextChain]_vars

(***************************************************************************)
(* CryptoOps: the proofs behind the panic barrier, and the aggregate BLS    *)
(* signature.  What a library call makes of its input is part of the       *)
(* input (lib): it returns true or false, returns an error, or panics.      *)
(* The free functions return [panicked, err, val].                          *)
(***************************************************************************)
Returned(val) == [panicked |-> FALSE, err |-> "Ok", val |-> val]
Errored(err) == [panicked |-> FALSE, err |-> err, val |-> 0]
Panicked == [panicked |-> TRUE, err |-> "Ok", val |-> 0]

\* A library call whose error becomes IllegalArgument (or_illegal_argument).
LibraryVerdict(lib) ==
    CASE lib = "valid" -> Returned(1)
      [] lib = "invalid" -> Returned(0)
      [] lib = "error" -> Errored("IllegalArgument")
      [] lib = "panic" -> Panicked

\* A barrier that lets the panic through to the guest's caller.
let_panic_through(r) == IF r.panicked THEN Errored("Fatal") ELSE r

\* catch_and_log_panic
catch_and_log_panic(r) == IF r.panicked THEN Errored("IllegalArgument") ELSE r

\* The outcome of t.record(catch_and_log_panic(..)) after the charge o.
Barrier(o, r) ==
    LET caught == catch_and_log_panic(r)
    IN  IF Failed(o) THEN o
        ELSE IF caught.err # "Ok" THEN Fail(o, caught.err)
        ELSE [o EXCEPT !.res.n = caught.val]

(***************************************************************************)
(* Piece sizes.  A PaddedPieceSize is a u64; here a u64 is the set of the  *)
(* positions of its set bits (bit 0 the lowest), so that all 64 bits are   *)
(* there.  The operators on them work bit by bit.                          *)
(***************************************************************************)
U64Bits == 64

\* The same set with its elements listed, so that the steps of a long
\* computation start from bits that are already worked out.
Listed(a) == BagToSet(SetToBag(a))
Xor(a, b) == Listed((a \ b) \cup (b \ a))
\* a + b of numbers below 2^65: bit i of the sum is set when an odd number
\* of a's bit, b's bit and the carry into i are; there is a carry into i
\* when a lower bit is set in both and every bit between in one of them.
Carry(a, b, i) == \E j \in a \cap b : j < i /\ \A m \in j + 1 .. i - 1 : m \in a \cup b
AddBits(a, b) ==
    Listed({i \in 0 .. U64Bits + 1 : ((i \in a) # (i \in b)) # Carry(a, b, i)})
\* a < b: the highest bit in which they differ is one of b.
LessBits(a, b) ==
    /\ a # b
    /\ LET d == Xor(a, b) IN (CHOOSE i \in d : \A j \in d : j <= i) \in b
\* a - b of numbers below 2^w, modulo 2^w: bit i of the difference is set
\* when an odd number of a's bit, b's bit and the borrow from i are; there
\* is a borrow from i when a lower bit is set in b alone and no bit between
\* is set in a alone.
Borrow(a, b, i) == \E j \in b \ a : j < i /\ \A m \in j + 1 .. i - 1 : m \notin a \ b
SubBits(a, b, w) ==
    Listed({i \in 0 .. w - 1 : ((i \in a) # (i \in b)) # Borrow(a, b, i)})
\* u64::wrapping_sub
wrapping_sub(a, b) == SubBits(a, b, U64Bits)
\* a % p for p > 0, by long division: one step for each bit of a from the
\* highest down, on [i, r] with r the remainder of the bits above i.  n steps
\* are made as two halves; after bit 0 there are none left to make.
RECURSIVE RemSteps(_, _, _, _)
RemSteps(a, p, at, n) ==
    IF n = 0 THEN at
    ELSE IF n = 1
    THEN LET shifted == Listed({j + 1 : j \in at.r} \cup (IF at.i \in a THEN {0} ELSE {}))
         IN  [i |-> at.i - 1,
              r |-> IF LessBits(shifted, p) THEN shifted
                    ELSE SubBits(shifted, p, U64Bits + 1)]
    ELSE LET half == RemSteps(a, p, at, n \div 2)
         IN  IF half.i < 0 THEN half ELSE RemSteps(a, p, half, n - n \div 2)
Rem(a, p) ==
    IF a = {} THEN {} ELSE RemSteps(a, p, [i |-> U64Bits - 1, r |-> {}], U64Bits).r
\* u64::count_ones, u64::trailing_zeros
count_ones(a) == Cardinality(a)
trailing_zeros(a) == IF a = {} THEN U64Bits ELSE CHOOSE i \in a : \A j \in a : i <= j

\* The loop of get_required_padding: n rounds on the values of its
\* variables, [to_fill, pad_pieces, sum], made as two halves; with nothing
\* left to fill there are none left to make.
RECURSIVE PadLoop(_, _)
PadLoop(v, n) ==
    IF n = 0 THEN v
    ELSE IF n = 1
    THEN LET next   == trailing_zeros(v.to_fill)
             p_size == {next}
         IN  [to_fill    |-> Xor(v.to_fill, p_size),
              pad_pieces |-> Append(v.pad_pieces, p_size),
              sum        |-> AddBits(v.sum, p_size)]
    ELSE LET half == PadLoop(v, n \div 2)
         IN  IF half.to_fill = {} THEN half ELSE PadLoop(half, n - n \div 2)

\* get_required_padding that fills up the remainder of the length itself.
get_required_padding_of_length(old_length, new_piece_length) ==
    LET to_fill == Rem(old_length, new_piece_length)
        done == PadLoop([to_fill |-> to_fill, pad_pieces |-> <<>>, sum |-> {}],
                        count_ones(to_fill))
    IN  [pads |-> done.pad_pieces, sum |-> done.sum]

\* fn get_required_padding, for a new_piece_length above 0 (the remainder by
\* 0 panics): the pads and their sum.
get_required_padding(old_length, new_piece_length) ==
    LET to_fill == Rem(wrapping_sub({}, old_length), new_piece_length)
        done == PadLoop([to_fill |-> to_fill, pad_pieces |-> <<>>, sum |-> {}],
                        count_ones(to_fill))
    IN  [pads |-> done.pad_pieces, sum |-> done.sum]

\* An entry of all_pieces: a zero piece (a pad) or a piece of the caller.
\* The size kept is the padded one the entry is made from.
ZeroPiece(size) == [size |-> size, zero |-> TRUE]
GivenPiece(size) == [size |-> size, zero |-> FALSE]

\* The pads from..to added up, by halves.
RECURSIVE PadsSum(_, _, _)
PadsSum(pads, from, to) ==
    IF from > to THEN {}
    ELSE IF from = to THEN pads[from]
    ELSE LET m == (from + to) \div 2
         IN  AddBits(PadsSum(pads, from, m), PadsSum(pads, m + 1, to))

\* The closure pad_to on [all_pieces, sum]: the pads pushed as zero pieces
\* and added to the sum.
pad_to(pads, placed) ==
    [all_pieces |-> placed.all_pieces \o [i \in 1 .. Len(pads) |-> ZeroPiece(pads[i])],
     sum        |-> AddBits(placed.sum, PadsSum(pads, 1, Len(pads)))]

\* The loop over the pieces (sizes above 0), from piece i on.
RECURSIVE PlacePieces(_, _, _)
PlacePieces(pieces, i, placed) ==
    IF i > Len(pieces) THEN placed
    ELSE LET ps     == get_required_padding(placed.sum, pieces[i]).pads
             padded == pad_to(ps, placed)
         IN  PlacePieces(pieces, i + 1,
                         [all_pieces |-> Append(padded.all_pieces, GivenPiece(pieces[i])),
                          sum        |-> AddBits(padded.sum, pieces[i])])

\* all_pieces without the padding after the last piece.
all_pieces_unfilled(ssize, pieces) ==
    IF pieces = <<>> THEN <<ZeroPiece(ssize)>>
    ELSE PlacePieces(pieces, 1, [all_pieces |-> <<>>, sum |-> {}]).all_pieces

\* fn compute_unsealed_sector_cid: the list all_pieces that goes to
\* compute_comm_d, for a sector of ssize bytes.
all_pieces(ssize, pieces) ==
    IF pieces = <<>> THEN <<ZeroPiece(ssize)>>
    ELSE LET placed == PlacePieces(pieces, 1, [all_pieces |-> <<>>, sum |-> {}])
             ps     == get_required_padding(placed.sum, ssize).pads
         IN  pad_to(ps, placed).all_pieces

\* fn compute_unsealed_sector_cid: get_required_padding takes the remainder
\* by the size of each piece, which panics for a piece of size 0.
compute_unsealed_sector_cid_fn(proof_type, pieces, lib) ==
    IF \E i \in DOMAIN pieces : pieces[i] = 0 THEN Panicked
    ELSE LibraryVerdict(lib)

\* fn verify_post
verify_post_fn(verify_info) ==
    LET proofs == verify_info.proofs
    IN  IF verify_info.randomness_len <= 31 THEN Panicked
        ELSE IF proofs = <<>> THEN Panicked
        ELSE IF \E i \in DOMAIN proofs : proofs[i] # proofs[1] THEN Errored("IllegalArgument")
        ELSE IF ~verify_info.sectors_ok THEN Errored("IllegalArgument")
        ELSE LibraryVerdict(verify_info.lib)

\* fn verify_aggregate_seals
verify_aggregate_seals_fn(aggregate) ==
    IF aggregate.infos = 0 THEN Errored("IllegalArgument")
    ELSE LibraryVerdict(aggregate.lib)

\* fn verify_replica_update
verify_replica_update_fn(replica) == LibraryVerdict(replica.lib)

compute_unsealed_sector_cid(k, cm, proof_type, pieces, lib) ==
    LET o0 == Start(k, cm, "compute_unsealed_sector_cid", <<proof_type, pieces, lib>>)
        o1 == charge_gas(o0, "OnComputeUnsealedSectorCid",
                         on_compute_unsealed_sector_cid(proof_type, pieces))
    IN  Barrier(o1, compute_unsealed_sector_cid_fn(proof_type, pieces, lib))

verify_post(k, cm, verify_info) ==
    LET o0 == Start(k, cm, "verify_post", <<verify_info>>)
        o1 == charge_gas(o0, "OnVerifyPost", on_verify_post(verify_info))
    IN  Barrier(o1, verify_post_fn(verify_info))

verify_aggregate_seals(k, cm, aggregate) ==
    LET o0 == Start(k, cm, "verify_aggregate_seals", <<aggregate>>)
        o1 == charge_gas(o0, "OnVerifyAggregateSeals", on_verify_aggregate_seals(aggregate))
    IN  Barrier(o1, verify_aggregate_seals_fn(aggregate))

verify_replica_update(k, cm, replica) ==
    LET o0 == Start(k, cm, "verify_replica_update", <<replica>>)
        o1 == charge_gas(o0, "OnVerifyReplicaUpdate", on_verify_replica_update(replica))
    IN  Barrier(o1, verify_replica_update_fn(replica))

\* usize is taken at 32 bits, the width at which checked_add can fail for a
\* handful of u32 lengths; a buffer is known by its length.
\* start.checked_add(len as usize): [ok, sum].
checked_add(a, b) ==
    LET sum == AddU64(a, b)
    IN  [ok |-> sum.hi < LIMB, sum |-> sum]

\* The map over plaintext_lens, collected: [ok, offset] after entries
\* from..Len(plaintext_lens), starting at offset.
RECURSIVE PlaintextSpans(_, _, _, _)
PlaintextSpans(plaintext_lens, len, from, offset) ==
    IF from > Len(plaintext_lens) THEN [ok |-> TRUE, offset |-> offset]
    ELSE LET added == checked_add(offset, plaintext_lens[from])
             end == added.sum
             inside == end.hi < len.hi \/ (end.hi = len.hi /\ end.lo <= len.lo)
         IN  IF ~added.ok THEN [ok |-> FALSE, offset |-> offset]
             ELSE IF ~inside THEN [ok |-> FALSE, offset |-> end]
             ELSE PlaintextSpans(plaintext_lens, len, from + 1, end)

\* verify_bls_aggregate that does not look at what the spans leave over.
verify_bls_aggregate_loose(k, cm, num_signers, plaintexts_concat_len, plaintext_lens, lib) ==
    LET o0 == Start(k, cm, "verify_bls_aggregate",
                    <<num_signers, plaintexts_concat_len, plaintext_lens, lib>>)
        o1 == charge_gas(o0, "OnVerifyAggregateSignature",
                         on_verify_aggregate_signature(num_signers,
                                                       plaintexts_concat_len))
        plaintexts == PlaintextSpans(plaintext_lens, plaintexts_concat_len, 1, U32(0, 0))
    IN  IF num_signers # Len(plaintext_lens) THEN Fail(o0, "IllegalArgument")
        ELSE IF Failed(o1) THEN o1
        ELSE IF ~plaintexts.ok THEN Fail(o1, "IllegalArgument")
        ELSE [o1 EXCEPT !.res.n = IF lib = "valid" THEN 1 ELSE 0]

verify_bls_aggregate(k, cm, num_signers, plaintexts_concat_len, plaintext_lens, lib) ==
    LET o0 == Start(k, cm, "verify_bls_aggregate",
                    <<num_signers, plaintexts_concat_len, plaintext_lens, lib>>)
        o1 == charge_gas(o0, "OnVerifyAggregateSignature",
                         on_verify_aggregate_signature(num_signers,
                                                       plaintexts_concat_len))
        plaintexts == PlaintextSpans(plaintext_lens, plaintexts_concat_len, 1, U32(0, 0))
    IN  IF num_signers # Len(plaintext_lens) THEN Fail(o0, "IllegalArgument")
        ELSE IF Failed(o1) THEN o1
        ELSE IF ~plaintexts.ok THEN Fail(o1, "IllegalArgument")
        ELSE IF plaintexts.offset # plaintexts_concat_len THEN Fail(o1, "IllegalArgument")
        \* .or(Ok(false))
        ELSE [o1 EXCEPT !.res.n = IF lib = "valid" THEN 1 ELSE 0]

(***************************************************************************)
(* SpecCrypto: the proof syscalls and verify_bls_aggregate, on inputs the   *)
(* library accepts, rejects, fails on and panics on.                        *)
(***************************************************************************)
CryptoGasLimit == 3
MaxSigners == 2

LibraryOutcomes == {"valid", "invalid", "error", "panic"}

WindowPoStVerifyInfo(randomness_len, proofs, sectors_ok, lib) ==
    [randomness_len |-> randomness_len, proofs |-> proofs, sectors_ok |-> sectors_ok,
     lib |-> lib]

RECURSIVE SeqsUpTo(_, _)
SeqsUpTo(S, n) ==
    IF n = 0 THEN {<<>>}
    ELSE LET shorter == SeqsUpTo(S, n - 1)
         IN  shorter \cup {Append(s, a) : s \in {x \in shorter : Len(x) = n - 1}, a \in S}

ComputeUnsealedSectorCid ==
    /\ Running
    /\ \E pieces \in SeqsUpTo({0, 128}, 2), lib \in LibraryOutcomes :
          Apply(compute_unsealed_sector_cid(Top, CM, 1, pieces, lib))

VerifyPost ==
    /\ Running
    /\ \E randomness_len \in {31, 32}, proofs \in SeqsUpTo({1, 2}, 2),
          sectors_ok \in BOOLEAN, lib \in LibraryOutcomes :
          Apply(verify_post(Top, CM,
                            WindowPoStVerifyInfo(randomness_len, proofs, sectors_ok, lib)))

VerifyAggregateSeals ==
    /\ Running
    /\ \E infos \in 0..1, lib \in LibraryOutcomes :
          Apply(verify_aggregate_seals(Top, CM, [infos |-> infos, lib |-> lib]))

VerifyReplicaUpdate ==
    /\ Running
    /\ \E lib \in LibraryOutcomes : Apply(verify_replica_update(Top, CM, [lib |-> lib]))

PlaintextLens == {U32(0, 1), U32(0, 2), U32_MAX}
BufferLens == {U32(0, 0), U32(0, 3)}

VerifyBlsAggregate ==
    /\ Running
    /\ \E num_signers \in 0..MaxSigners, plaintexts_concat_len \in BufferLens,
          plaintext_lens \in SeqsUpTo(PlaintextLens, MaxSigners),
          lib \in {"valid", "invalid", "error"} :
          Apply(verify_bls_aggregate(Top, CM, num_signers, plaintexts_concat_len,
                                     plaintext_lens, lib))

InitCrypto == InitWith({NoBlock}, MaxDepth, CryptoGasLimit, MaxBlockSize)

NextCrypto ==
    \/ ComputeUnsealedSectorCid
    \/ VerifyPost
    \/ VerifyAggregateSeals
    \/ VerifyReplicaUpdate
    \/ VerifyBlsAggregate

SpecCrypto == InitCrypto /\ [][NextCrypto]_vars

(***************************************************************************)
(* CryptoOps::batch_verify_seals, step by step.  The loop charges the gas  *)
(* of one entry per step and pushes it on items; once the loop is done the *)
(* parallel workers take items, at most NumCpus at a time and in any       *)
(* order, and each puts its result where its item was; the call returns    *)
(* when every item is done.  What the proofs library makes of a seal is    *)
(* part of the input: it finds it valid or invalid, fails, or panics.      *)
(***************************************************************************)
MaxSeals == 2
NumCpus == 2
SealsGasLimit == 4

SealVerifyInfo(registered_proof, lib) == [registered_proof |-> registered_proof, lib |-> lib]
SealVerifyInfos == {SealVerifyInfo(p, lib) : p \in {1, 2}, lib \in LibraryOutcomes}

\* verify_seal as the worker sees it: Ok(Ok(correct)), Ok(Err(err)) or the
\* Err(e) of catch_unwind.
verify_seal_result(seal) ==
    CASE seal.lib = "valid" -> [caught |-> FALSE, err |-> FALSE, correct |-> TRUE]
      [] seal.lib = "invalid" -> [caught |-> FALSE, err |-> FALSE, correct |-> FALSE]
      [] seal.lib = "error" -> [caught |-> FALSE, err |-> TRUE, correct |-> FALSE]
      [] seal.lib = "panic" -> [caught |-> TRUE, err |-> FALSE, correct |-> FALSE]

\* The ok of the worker's match.
seal_ok(seal) ==
    LET r == verify_seal_result(seal)
    IN  IF r.caught THEN FALSE
        ELSE IF r.err THEN FALSE
        ELSE r.correct

\* Workers that take items while the loop is still charging.
drained_while_charging(b, i) == i <= Len(b.items) /\ i \notin b.running /\ i \notin b.done

\* par_drain: item i is there for a worker to take.
drained(b, i) ==
    /\ Len(b.items) = Len(b.vis)
    /\ i \in DOMAIN b.items /\ i \notin b.running /\ i \notin b.done

\* A collect that takes the results as they come.
collect_as_completed(b, i, ok) ==
    LET next == Cardinality(b.done) + 1
    IN  [b EXCEPT !.out[next] = ok, !.done = @ \cup {next}]

\* collect of an indexed parallel iterator: the result of item i is at i.
\* The places of out that are not in done hold nothing yet.
collect(b, i, ok) == [b EXCEPT !.out[i] = ok, !.done = @ \cup {i}]

\* The call is entered.
BatchEnter(batches) ==
    /\ Running
    /\ \E vis \in batches :
          batch' = [pc |-> "called", vis |-> vis, items |-> <<>>, running |-> {},
                    done |-> {}, out |-> [i \in DOMAIN vis |-> FALSE],
                    res |-> Start(Top, CM, "batch_verify_seals", <<vis>>).res]
    /\ UNCHANGED <<kstack, call_stack, state_tree, tx_layers, blockstore, gas_used, events,
                   context, last>>

\* One turn of the loop: the charge for the next entry, which ends the call
\* when it fails.
BatchCharge ==
    /\ batch.pc = "called"
    /\ Len(batch.items) < Len(batch.vis)
    /\ LET i == Len(batch.items) + 1
           o == charge_gas([k |-> Top, cm |-> CM, res |-> batch.res], "OnVerifySeal",
                           on_verify_seal(batch.vis[i]))
       IN  /\ gas_used' = o.cm.gas
           /\ IF Failed(o)
              THEN /\ batch' = [batch EXCEPT !.pc = "idle", !.res = o.res]
                   /\ last' = o.res
              ELSE /\ batch' = [batch EXCEPT !.items = Append(@, i), !.res = o.res]
                   /\ UNCHANGED last
    /\ UNCHANGED <<kstack, call_stack, state_tree, tx_layers, blockstore, events, context>>

\* A worker takes an item.
BatchVerifyStart ==
    /\ batch.pc = "called"
    /\ Cardinality(batch.running) < NumCpus
    /\ \E i \in DOMAIN batch.vis :
          /\ drained(batch, i)
          /\ batch' = [batch EXCEPT !.running = @ \cup {i}]
    /\ UNCHANGED <<kstack, call_stack, state_tree, tx_layers, blockstore, gas_used, events,
                   context, last>>

\* A worker is done with its item.
BatchVerifyFinish ==
    /\ batch.pc = "called"
    /\ \E i \in batch.running :
          batch' = collect([batch EXCEPT !.running = @ \ {i}], i, seal_ok(batch.vis[i]))
    /\ UNCHANGED <<kstack, call_stack, state_tree, tx_layers, blockstore, gas_used, events,
                   context, last>>

\* Every item is done: Ok(out).
BatchReturn ==
    /\ batch.pc = "called"
    /\ Len(batch.items) = Len(batch.vis)
    /\ batch.done = DOMAIN batch.vis
    /\ batch' = [batch EXCEPT !.pc = "idle"]
    /\ last' = batch.res
    /\ UNCHANGED <<kstack, call_stack, state_tree, tx_layers, blockstore, gas_used, events,
                   context>>

InitSeals == InitWith({NoBlock}, MaxDepth, SealsGasLimit, MaxBlockSize)

NextSeals ==
    \/ BatchEnter(SeqsUpTo(SealVerifyInfos, MaxSeals))
    \/ BatchCharge
    \/ BatchVerifyStart
    \/ BatchVerifyFinish
    \/ BatchReturn

SpecSeals == InitSeals /\ [][NextSeals]_vars

(***************************************************************************)
(* SpecLink: blocks are created and linked with the right and the wrong    *)
(* hash function and length, on handles the registry has and has not.      *)
(***************************************************************************)
LinkGasLimit == 3

InitLink == InitWith({NoBlock}, MaxDepth, LinkGasLimit, MaxBlockSize)

NextLink ==
    \/ BlockCreateOf(BlocksCreateInputs)
    \/ BlockLinkOf(HashInputs)

SpecLink == InitLink /\ [][NextLink]_vars

(***************************************************************************)
(* SpecRoot: the state root.  Actors read it, write it (the CID of a block *)
(* they made, or one they were given) and open it, call one another and    *)
(* themselves, and return or abort.                                        *)
(***************************************************************************)
RootGasLimit == 5

InitRoot == InitWith({NoBlock}, MaxDepth, RootGasLimit, MaxBlockSize)

NextRoot ==
    \/ Root
    \/ SetRoot
    \/ BlockOpen
    \/ BlockCreateOf({<<IPLD_RAW, <<1>>>>})
    \/ BlockLinkOf({<<BLAKE2B_256, 32>>})
    \/ SendOf(KernelActors, {1}, {0}, {FALSE})
    \/ ExitOf({EXIT_OK, USR_ABORT})

SpecRoot == InitRoot /\ [][NextRoot]_vars

(***************************************************************************)
(* SpecPadding: get_required_padding on lengths made of the lowest PadBits *)
(* bits and the two highest bits of a u64.                                 *)
(***************************************************************************)
PadBits == 2

PaddingBits == (0 .. PadBits - 1) \cup {U64Bits - 2, U64Bits - 1}
PaddedPieceSizes == SUBSET PaddingBits

\* One call of the function in each behaviour.
GetRequiredPadding ==
    /\ last.op = "none"
    /\ \E old_length \in PaddedPieceSizes, new_piece_length \in PaddedPieceSizes \ {{}} :
          last' = [NoRes EXCEPT !.op = "get_required_padding",
                                !.arg = <<old_length, new_piece_length>>,
                                !.ret = get_required_padding(old_length, new_piece_length)]
    /\ UNCHANGED <<kstack, call_stack, state_tree, tx_layers, blockstore, gas_used,
                   events, context, batch>>

NextPadding == GetRequiredPadding

\* The function does not look at the kernel: one kernel will do.
InitPadding ==
    /\ InitWith({NoBlock}, MaxDepth, GasLimit, MaxBlockSize)
    /\ Top.actor_id = INIT_ACTOR_ID

SpecPadding == InitPadding /\ [][NextPadding]_vars

(***************************************************************************)
(* SpecOrder: emit_event of events with more than one thing wrong, in a    *)
(* kernel that may write and in a read-only one.                           *)
(***************************************************************************)
OrderGasLimit == 2

\* Too many entries and too many values; too many values and keys that are
\* not UTF-8.
Entries256Values8193 ==
    Event(Bytes(MAX_NR_ENTRIES + 1, Header(0, IPLD_RAW, 0, 0)), <<>>,
          Bytes(MAX_TOTAL_VALUES_LEN + 1, 7))
Values8193BadUtf8 ==
    Event(<<Header(0, IPLD_RAW, 1, MAX_TOTAL_VALUES_LEN + 1)>>, <<255>>,
          Bytes(MAX_TOTAL_VALUES_LEN + 1, 7))
\* Keys that are not UTF-8 under a header with a key of 32 bytes.
BadUtf8Key32 ==
    Event(<<Header(0, IPLD_RAW, MAX_KEY_LEN + 1, 0)>>, Bytes(MAX_KEY_LEN + 1, 255), <<>>)
\* One header with two things wrong.
Key32Val8193 ==
    Event(<<Header(0, IPLD_RAW, MAX_KEY_LEN + 1, MAX_TOTAL_VALUES_LEN + 1)>>,
          Bytes(MAX_KEY_LEN + 1, 97), <<7>>)
Val8193BadCodec ==
    Event(<<Header(0, BAD_CODEC, 0, MAX_TOTAL_VALUES_LEN + 1)>>, <<>>, <<7>>)
KeyPastEndBadCodec == Event(<<Header(0, BAD_CODEC, 2, 0)>>, <<97>>, <<>>)
ValuePastEndBadCodec == Event(<<Header(0, BAD_CODEC, 0, 2)>>, <<>>, <<7>>)
BadCodecKeysLeftOver == Event(<<Header(0, BAD_CODEC, 1, 0)>>, <<97, 98>>, <<>>)
\* Two headers, each with one thing wrong.
BadCodecThenBadFlags ==
    Event(<<Header(0, BAD_CODEC, 0, 0), Header(FLAGS_ALL + 1, IPLD_RAW, 0, 0)>>, <<>>, <<>>)
GoodThenKey32 ==
    Event(<<Header(0, IPLD_RAW, 1, 0), Header(0, IPLD_RAW, MAX_KEY_LEN + 1, 0)>>,
          Bytes(MAX_KEY_LEN + 2, 97), <<>>)
\* Both buffers too long.
BothLeftOver == Event(<<Header(0, IPLD_RAW, 1, 1)>>, <<97, 98>>, <<7, 7>>)
\* As much as an event can hold: 255 keys of 31 bytes, 8192 bytes of values.
Fullest ==
    Event(Bytes(MAX_NR_ENTRIES - 1, Header(0, IPLD_RAW, MAX_KEY_LEN, 0))
             \o <<Header(0, IPLD_RAW, MAX_KEY_LEN, MAX_TOTAL_VALUES_LEN)>>,
          Bytes(MAX_NR_ENTRIES * MAX_KEY_LEN, 97), Bytes(MAX_TOTAL_VALUES_LEN, 7))

OrderEvents ==
    <<GoodEvent, Entries256, Entries256Values8193, Values8193BadUtf8, BadUtf8Key32,
      Key32BadFlags, Key32Val8193, Val8193BadCodec, KeyPastEndBadCodec,
      ValuePastEndBadCodec, BadCodecKeysLeftOver, BadCodecThenBadFlags, GoodThenKey32,
      BothLeftOver, Fullest>>

InitOrder == InitWith({NoBlock}, MaxDepth, OrderGasLimit, MaxBlockSize)

NextOrder ==
    \/ EmitEventFrom(OrderEvents)
    \/ SendOf({OTHER_ACTOR_ID}, {1}, {0}, {TRUE})
    \/ ExitOf({EXIT_OK})

SpecOrder == InitOrder /\ [][NextOrder]_vars

(***************************************************************************)
(* SpecRoom: room for the return block.  Actors fill their registries,     *)
(* call one another and themselves with and without parameters, upgrade,   *)
(* and return with any of their blocks or with none.                       *)
(***************************************************************************)
RoomMaxDepth == 3
RoomGasLimit == 4

InitRoom == InitWith({NoBlock}, RoomMaxDepth, RoomGasLimit, MaxBlockSize)

NextRoom ==
    \/ BlockCreateOf({<<IPLD_RAW, <<1>>>>})
    \/ SendOf(KernelActors, {1}, {0}, {FALSE})
    \/ UpgradeActorOf({"codeB"})
    \/ ExitOf({EXIT_OK, USR_ABORT})

SpecRoom == InitRoom /\ [][NextRoom]_vars

(***************************************************************************)
(* SpecGone: an actor that is gone.  Actors read their state root, delete  *)
(* themselves, call themselves and one another, return or abort, and go on *)
(* to read and write their state root and to upgrade.                      *)
(***************************************************************************)
GoneGasLimit == 4

InitGone == InitWith({NoBlock}, MaxDepth, GoneGasLimit, MaxBlockSize)

NextGone ==
    \/ Root
    \/ SelfDestruct
    \/ SetRoot
    \/ UpgradeActorOf({"codeB"})
    \/ SendOf(KernelActors, {1}, {0}, {FALSE})
    \/ ExitOf({EXIT_OK, USR_ABORT})

SpecGone == InitGone /\ [][NextGone]_vars

(***************************************************************************)
(* SpecLayout: the pieces of a sector.  Up to MaxPieces pieces of 128, 384,*)
(* 512 and 1024 bytes, for sectors of 2 KiB and of 8 MiB.                  *)
(***************************************************************************)
MaxPieces == 3

SectorSizes == {{11}, {23}}
PieceSizes == {{7}, {7, 8}, {9}, {10}}

ComputeUnsealedSectorCidLayout ==
    /\ last.op = "none"
    /\ \E ssize \in SectorSizes, pieces \in SeqsUpTo(PieceSizes, MaxPieces) :
          last' = [NoRes EXCEPT !.op = "compute_unsealed_sector_cid",
                                !.arg = <<ssize, pieces>>,
                                !.ret = all_pieces(ssize, pieces)]
    /\ UNCHANGED <<kstack, call_stack, state_tree, tx_layers, blockstore, gas_used,
                   events, context, batch>>

NextLayout == ComputeUnsealedSectorCidLayout

SpecLayout == InitPadding /\ [][NextLayout]_vars

(***************************************************************************)
(* SpecOwner: who holds the CallManager.  Calls three deep of two actors,  *)
(* one syscall that does not call, and the returns.  A guest runs on the   *)
(* gas of the message, so it does not run for ever: the return of the      *)
(* running kernel is not put off for ever.                                 *)
(***************************************************************************)
OwnerMaxDepth == 3
OwnerGasLimit == 4

InitOwner == InitWith({NoBlock}, OwnerMaxDepth, OwnerGasLimit, MaxBlockSize)

NextOwner ==
    \/ Root
    \/ UpgradeActorOf({"codeB"})
    \/ SendOf(KernelActors, {1}, {0}, {FALSE})
    \/ ExitOf({EXIT_OK, USR_ABORT})

SpecOwner == InitOwner /\ [][NextOwner]_vars /\ WF_vars(ExitOf({EXIT_OK, USR_ABORT}))

(***************************************************************************)
(* Properties.                                                             *)
(***************************************************************************)
\* This step is a syscall named op made by the running kernel (and not the
\* return of a callee, which lowers the stack of kernels).
CallStep(op) == Running /\ last'.op = op /\ Len(kstack') >= Len(kstack)

\* This step pushes a child kernel.
Spawns == Len(kstack') = Len(kstack) + 1

KernelState == <<kstack, call_stack, state_tree, tx_layers, blockstore, events>>

\* C1: read-only propagation.  A kernel's read_only never changes while it is
\* on the stack; the child spawned by send has read_only = (the sender's
\* read_only or flags.read_only), so the child of a read-only kernel is
\* read-only whatever the flags; and along the stack every kernel below a
\* read-only kernel is read-only.
C1_ReadOnlyPropagation ==
    [][/\ \A i \in 1..Min(Len(kstack), Len(kstack')) :
             kstack'[i].read_only = kstack[i].read_only
       /\ (CallStep("send") /\ Spawns) =>
             /\ kstack'[Len(kstack')].read_only = (Top.read_only \/ last'.arg[5])
             /\ Top.read_only => kstack'[Len(kstack')].read_only
       /\ \A i, j \in 1..Len(kstack') :
             (i < j /\ kstack'[i].read_only) => kstack'[j].read_only]_vars

\* C1 witness: a kernel made read-only by its caller's flag has sent without
\* the flag, and the kernel it spawned is read-only.
C1_Witness ==
    /\ Len(kstack) = 3
    /\ ~kstack[1].read_only /\ kstack[2].read_only /\ kstack[3].read_only
    /\ last.op = "send" /\ last.phase = "called" /\ last.arg[5] = FALSE

\* The syscall of this step is one of the mutating operations, made where
\* read-only applies: in a read-only kernel, or a send of value with the
\* read-only flag.
ReadOnlyCase ==
    \/ /\ Top.read_only
       /\ \/ CallStep("set_root")
          \/ CallStep("self_destruct")
          \/ CallStep("create_actor")
          \/ CallStep("upgrade_actor")
          \/ CallStep("emit_event")
    \/ /\ CallStep("send")
       /\ last'.arg[4] # 0
       /\ Top.read_only \/ last'.arg[5]

\* C2, as claimed: in a read-only kernel each of set_root, self_destruct,
\* create_actor, upgrade_actor, send of a non-zero value (also when only the
\* flag is set) and emit_event fails with ReadOnly and changes nothing.
C2_AllFailReadOnly ==
    [][ReadOnlyCase => (last'.err = "ReadOnly" /\ UNCHANGED KernelState)]_vars

\* C2, amended: as claimed, except that create_actor called by an actor other
\* than the Init actor fails with Forbidden instead (that check comes first);
\* in every case nothing changes: no state-tree or balance change, no event,
\* no registry change, no transaction, no call, and no gas charged.
C2_ReadOnlyRejects ==
    [][ReadOnlyCase =>
          /\ last'.err = IF last'.op = "create_actor" /\ Top.actor_id # INIT_ACTOR_ID
                         THEN "Forbidden" ELSE "ReadOnly"
          /\ last'.charges = <<>>
          /\ UNCHANGED KernelState
          /\ UNCHANGED gas_used]_vars

\* C2 witness: the Init actor, running read-only, was refused create_actor.
C2_Witness ==
    /\ kstack # <<>>
    /\ Top.read_only /\ Top.actor_id = INIT_ACTOR_ID
    /\ last.op = "create_actor" /\ last.err = "ReadOnly"

\* The CID block_link computes for a block.
CidOf(blk) == NewCidV1(blk.codec, Blake2b256(blk.data))

\* The links found in the bytes of a block.
LinksOf(blk) == Range(scan_for_reachable_links(blk.codec, blk.data))

\* C3, as claimed: for every handle of every kernel's registry, the CID of
\* the block is in the reachable set and so is every child CID of the block.
C3_EveryBlockReachable ==
    \A i \in DOMAIN kstack :
        \A h \in DOMAIN kstack[i].blocks.blocks :
            LET blk == kstack[i].blocks.blocks[h]
            IN  /\ is_reachable(kstack[i].blocks, CidOf(blk))
                /\ LinksOf(blk) \subseteq kstack[i].blocks.reachable

\* C3, amended: for every handle of every kernel's registry, every link found
\* in the block's bytes is in the reachable set, and the block's own CID is
\* in the reachable set if the block was opened; a block that was created,
\* passed as parameters or returned by a callee has its own CID reachable
\* only once it is linked (or reached some other way).
C3_ReachabilityClosure ==
    \A i \in DOMAIN kstack :
        /\ Len(kstack[i].origin) = Len(kstack[i].blocks.blocks)
        /\ \A h \in DOMAIN kstack[i].blocks.blocks :
              LET blk == kstack[i].blocks.blocks[h]
              IN  /\ LinksOf(blk) \subseteq kstack[i].blocks.reachable
                  /\ kstack[i].origin[h] = "open" =>
                        is_reachable(kstack[i].blocks, CidOf(blk))

\* C3 witness: a registry holds a created block with a link in it; the link
\* is reachable and the block's own CID is not.
C3_Witness ==
    \E i \in DOMAIN kstack :
        \E h \in DOMAIN kstack[i].blocks.blocks :
            LET blk == kstack[i].blocks.blocks[h]
            IN  /\ kstack[i].origin[h] = "create"
                /\ LinksOf(blk) # {}
                /\ LinksOf(blk) \subseteq kstack[i].blocks.reachable
                /\ ~is_reachable(kstack[i].blocks, CidOf(blk))

\* This step is a block_create of an allowed codec and size whose bytes hold
\* a link to a CID that is not reachable in the running kernel.
CreatesUnreachable ==
    /\ CallStep("block_create")
    /\ last'.arg[1] \in ALLOWED_CODECS
    /\ Len(last'.arg[2]) <= context.max_block_size
    /\ \E c \in Range(scan_for_reachable_links(last'.arg[1], last'.arg[2])) :
          ~is_reachable(Top.blocks, c)

\* C4, as claimed: block_create of bytes with a link to an unreachable CID
\* fails NotFound, allocates no handle, leaves the registry and the reachable
\* set unchanged, and the create charge (the charge for putting the block in
\* the registry) is not made.
C4_RejectsUncharged ==
    [][CreatesUnreachable =>
          /\ last'.err \in {"NotFound", "OutOfGas", "LimitExceeded"}
          /\ last'.id = NO_DATA_BLOCK_ID
          /\ UNCHANGED KernelState
          /\ last'.err = "NotFound" =>
                \A i \in DOMAIN last'.charges : last'.charges[i][1] # "OnBlockCreate"]_vars

\* C4, amended: block_create of bytes with a link to an unreachable CID fails
\* NotFound (unless the gas runs out first or the registry is full),
\* allocates no handle and leaves the registry and the reachable set
\* unchanged; when it fails NotFound the scan and the create charge have both
\* been made, and nothing else is charged.
C4_RejectsUnreachable ==
    [][CreatesUnreachable =>
          LET links == Len(scan_for_reachable_links(last'.arg[1], last'.arg[2]))
          IN  /\ last'.err \in {"NotFound", "OutOfGas", "LimitExceeded"}
              /\ last'.id = NO_DATA_BLOCK_ID
              /\ UNCHANGED KernelState
              /\ last'.err = "NotFound" =>
                    /\ last'.charges =
                          <<<<"OnScanIpldLinks", on_scan_links(links)>>,
                            <<"OnBlockCreate", on_block_create(Len(last'.arg[2]), links)>>>>
                    /\ gas_used' = gas_used + on_scan_links(links)
                                            + on_block_create(Len(last'.arg[2]), links)]_vars

\* C4 witness: a block_create of a DAG_CBOR block linking to the unreachable
\* node CID has failed NotFound.
C4_Witness ==
    /\ kstack # <<>>
    /\ last.op = "block_create" /\ last.err = "NotFound"
    /\ last.arg = <<DAG_CBOR, <<3>>>>
    /\ ~is_reachable(Top.blocks, NodeCid)

\* C5: a set_root step of a non-read-only kernel with a CID that is not
\* reachable fails NotFound (or runs out of gas) having charged the set-root
\* gas and leaves the state tree unchanged; a set_root step that changes the
\* state tree was given a reachable CID and installs exactly that CID as the
\* root of the calling actor.
C5_SetRootReachable ==
    [][(CallStep("set_root") /\ ~Top.read_only) =>
          LET cid == last'.arg[1]
          IN  /\ ~is_reachable(Top.blocks, cid) =>
                    /\ last'.err \in {"NotFound", "OutOfGas"}
                    /\ last'.charges = <<<<"OnSetRoot", on_set_root>>>>
                    /\ state_tree' = state_tree
              /\ state_tree' # state_tree =>
                    /\ is_reachable(Top.blocks, cid)
                    /\ last'.err = "Ok"
                    /\ state_tree' = [state_tree EXCEPT ![Top.actor_id].state = cid]]_vars

\* C5 witness: set_root of an unreachable CID has failed NotFound with the
\* gas charged, and the actor's root is still the initial one.
C5_Witness ==
    /\ kstack # <<>>
    /\ last.op = "set_root" /\ last.err = "NotFound"
    /\ ~is_reachable(Top.blocks, last.arg[1])
    /\ last.charges = <<<<"OnSetRoot", on_set_root>>>>
    /\ state_tree[Top.actor_id].state = NodeCid

\* A reachable CID other than the old root has been installed by set_root.
C5_InstalledReached ==
    /\ kstack # <<>>
    /\ last.op = "set_root" /\ last.err = "Ok"
    /\ state_tree[Top.actor_id].state = LeafCid
    /\ is_reachable(Top.blocks, LeafCid)

\* C6: a block_open step with a CID that is not reachable in the running
\* kernel fails NotFound (or runs out of gas on the base charge): the only
\* charge made is the open-base charge, so neither the scan nor the
\* open-finalize charge is made; no handle is returned or added, and the
\* registry, the reachable set and the store are as before.  The failure
\* does not depend on the store: it is the same for a CID the store holds
\* and for one it does not.
C6_OpenUnreachable ==
    [][(CallStep("block_open") /\ ~is_reachable(Top.blocks, last'.arg[1])) =>
          /\ last'.err \in {"NotFound", "OutOfGas"}
          /\ last'.charges = <<<<"OnBlockOpenBase", on_block_open_base>>>>
          /\ last'.err = "NotFound" => gas_used' = gas_used + on_block_open_base
          /\ last'.id = NO_DATA_BLOCK_ID
          /\ UNCHANGED KernelState]_vars

\* C6 witness: block_open of the leaf CID, which the store holds but the
\* kernel cannot reach, has failed NotFound with the base charge only.
C6_Witness ==
    /\ kstack # <<>>
    /\ last.op = "block_open" /\ last.err = "NotFound"
    /\ last.arg = <<LeafCid>>
    /\ StoreHas(blockstore, LeafCid)
    /\ ~is_reachable(Top.blocks, LeafCid)
    /\ last.charges = <<<<"OnBlockOpenBase", on_block_open_base>>>>

\* The running kernel holds a block it created whose CID is cid.
CreatedHere(cid) ==
    \E h \in DOMAIN Top.blocks.blocks :
        Top.origin[h] = "create" /\ CidOf(Top.blocks.blocks[h]) = cid

\* C7: block_link round trip.  (a) block_link of a valid handle with
\* (blake2b-256, 32) succeeds unless the gas runs out; when it succeeds the
\* CID it returns is the CID of the block's codec and bytes, is in the
\* reachable set afterwards and is stored in the block store with the
\* block's bytes.  (b) block_open of a reachable CID of a block the kernel
\* created succeeds unless the gas runs out or the registry is full, and
\* the handle it returns holds a block whose codec and bytes are those of
\* the created block, with stat = (codec, |bytes|).
C7_LinkRoundTrip ==
    [][/\ (/\ CallStep("block_link")
           /\ HasBlock(Top.blocks, last'.arg[1])
           /\ last'.arg[2] = BLAKE2B_256 /\ last'.arg[3] = 32) =>
             LET blk == GetBlock(Top.blocks, last'.arg[1])
             IN  /\ last'.err \in {"Ok", "OutOfGas"}
                 /\ last'.err = "Ok" =>
                       /\ last'.cid = CidOf(blk)
                       /\ is_reachable(kstack'[Len(kstack')].blocks, last'.cid)
                       /\ [cid |-> last'.cid, data |-> blk.data] \in blockstore'
                       /\ \A e \in blockstore' : e.cid = last'.cid => e.data = blk.data
       /\ (/\ CallStep("block_open")
           /\ is_reachable(Top.blocks, last'.arg[1])
           /\ CreatedHere(last'.arg[1])) =>
             /\ last'.err \in {"Ok", "OutOfGas", "LimitExceeded"}
             /\ last'.err = "Ok" =>
                   \A h \in DOMAIN Top.blocks.blocks :
                       (Top.origin[h] = "create"
                          /\ CidOf(Top.blocks.blocks[h]) = last'.arg[1]) =>
                          LET made == Top.blocks.blocks[h]
                              reg == kstack'[Len(kstack')].blocks
                          IN  /\ HasBlock(reg, last'.id)
                              /\ ~HasBlock(Top.blocks, last'.id)
                              /\ last'.stat = [codec |-> made.codec, size |-> Len(made.data)]
                              /\ GetBlock(reg, last'.id).codec = made.codec
                              /\ GetBlock(reg, last'.id).data = made.data]_vars

\* C7 witness: a block was created, linked and opened again by the CID the
\* link returned, a CID the store did not hold before; the opened block has
\* the codec and the bytes of the created one.
C7_Witness ==
    /\ kstack # <<>>
    /\ last.op = "block_open" /\ last.err = "Ok"
    /\ ~StoreHas(InitStore, last.arg[1])
    /\ HasBlock(Top.blocks, last.id)
    /\ \E h \in DOMAIN Top.blocks.blocks :
          /\ Top.origin[h] = "create"
          /\ CidOf(Top.blocks.blocks[h]) = last.arg[1]
          /\ last.stat = BlockStat(Top.blocks.blocks[h])
          /\ GetBlock(Top.blocks, last.id).data = Top.blocks.blocks[h].data
          /\ FIRST_ID + h - 1 # last.id

\* C8: block_read of a valid handle whose block has n bytes.  If offset +
\* buflen does not fit a signed 32-bit integer the call fails
\* IllegalArgument with no charge and nothing copied.  Otherwise the one
\* charge is the read price of to_read = min(max(n - offset, 0), buflen)
\* bytes and, unless that ran out of gas, exactly the bytes
\* data[offset .. offset + to_read] are copied and n - (offset + buflen) is
\* returned.
C8_ReadArithmetic ==
    (kstack # <<>> /\ last.op = "block_read" /\ HasBlock(Top.blocks, last.arg[1])) =>
        LET data == GetBlock(Top.blocks, last.arg[1]).data
            offset == last.arg[2]
            buflen == last.arg[3]
            fits == /\ offset.hi < 32768
                    /\ buflen.hi < 32768
                    /\ AsInt(offset) <= I32_MAX - AsInt(buflen)
        IN  IF ~fits
            THEN last.err = "IllegalArgument" /\ last.charges = <<>> /\ last.copied = <<>>
            ELSE LET off == AsInt(offset)
                     n == Len(data)
                     to_read == Min(IF n - off > 0 THEN n - off ELSE 0, AsInt(buflen))
                 IN  /\ last.charges = <<<<"OnBlockRead", on_block_read(to_read)>>>>
                     /\ \/ last.err = "OutOfGas"
                        \/ /\ last.err = "Ok"
                           /\ last.copied = [i \in 1..to_read |-> data[off + i]]
                           /\ last.n = n - (off + AsInt(buflen))

\* C8 witness: a block of 10 bytes read at offset 20 into a buffer of 4
\* returned -14 and copied nothing.
C8_Witness ==
    /\ kstack # <<>>
    /\ last.op = "block_read" /\ last.err = "Ok"
    /\ HasBlock(Top.blocks, last.arg[1])
    /\ Len(GetBlock(Top.blocks, last.arg[1]).data) = 10
    /\ last.arg[2] = U32(0, 20) /\ last.arg[3] = U32(0, 4)
    /\ last.n = -14 /\ last.copied = <<>>

\* A read that could not be added up: offset + buflen is past i32::MAX.
C8_OverflowReached ==
    /\ last.op = "block_read" /\ last.err = "IllegalArgument"
    /\ last.arg[2] = U32(32767, LIMB - 1) /\ last.arg[3] = U32(0, 1)

\* A read of the middle of the block: 4 bytes from offset 4 of 10.
C8_PartialReached ==
    /\ last.op = "block_read" /\ last.err = "Ok"
    /\ last.arg[2] = U32(0, 4) /\ last.arg[3] = U32(0, 4)
    /\ last.copied = <<1, 2, 3, 0>> /\ last.n = 2

\* The declarative form of the upgrade stack rule: there is no frame
\* (self, INVOKE), or every frame after the first one is (self, UPGRADE).
StackAllows(stack, self) ==
    LET invokes == {i \in DOMAIN stack : stack[i] = <<self, INVOKE_FUNC_NAME>>}
    IN  \/ invokes = {}
        \/ \E P \in invokes :
              /\ \A i \in invokes : P <= i
              /\ \A j \in (P + 1)..Len(stack) : stack[j] = <<self, UPGRADE_FUNC_NAME>>

\* C9: in a non-read-only kernel upgrade_actor fails Forbidden exactly when
\* the stack rule is broken, and on Forbidden nothing has happened: no
\* transaction, no code swap, no call.
C9_UpgradeStackRule ==
    [][(CallStep("upgrade_actor") /\ ~Top.read_only) =>
          /\ (last'.err = "Forbidden") = ~StackAllows(call_stack, Top.actor_id)
          /\ last'.err = "Forbidden" =>
                /\ UNCHANGED KernelState
                /\ last'.charges = <<>>]_vars

\* C9 witness: the stack [(A, INVOKE), (B, INVOKE), (A, INVOKE)], A upgrading.
C9_Witness ==
    /\ call_stack = <<<<INIT_ACTOR_ID, INVOKE_FUNC_NAME>>, <<OTHER_ACTOR_ID, INVOKE_FUNC_NAME>>,
                      <<INIT_ACTOR_ID, INVOKE_FUNC_NAME>>>>
    /\ last.op = "upgrade_actor" /\ last.err = "Forbidden"

\* C9, second witness of the rule: an upgrade that ran from inside an upgrade
\* of the same actor, [(A, INVOKE), (A, UPGRADE), (A, UPGRADE)].
C9_RecursiveUpgradeReached ==
    call_stack = <<<<INIT_ACTOR_ID, INVOKE_FUNC_NAME>>, <<INIT_ACTOR_ID, UPGRADE_FUNC_NAME>>,
                   <<INIT_ACTOR_ID, UPGRADE_FUNC_NAME>>>>

\* A frame of another actor lies between an earlier frame of self and the
\* current (last) frame.
UnrelatedReentry(stack, self) ==
    \E i, j \in DOMAIN stack :
        i < j /\ j < Len(stack) /\ stack[i][1] = self /\ stack[j][1] # self

\* C10, as claimed: whenever another actor's frame lies between an earlier
\* frame of self (INVOKE or UPGRADE) and the current frame, upgrade_actor
\* fails Forbidden.
C10_ReentryForbidden ==
    [][(CallStep("upgrade_actor") /\ UnrelatedReentry(call_stack, Top.actor_id)) =>
          last'.err = "Forbidden"]_vars

\* C10, amended: the same in a non-read-only kernel; a read-only kernel is
\* refused with ReadOnly before the stack is looked at.
C10_ReentryRefused ==
    [][(CallStep("upgrade_actor") /\ UnrelatedReentry(call_stack, Top.actor_id)) =>
          last'.err = IF Top.read_only THEN "ReadOnly" ELSE "Forbidden"]_vars

\* C10 witness: the earlier frames of self are an INVOKE and an UPGRADE frame,
\* then another actor, then self again, which is refused.
C10_Witness ==
    /\ call_stack = <<<<INIT_ACTOR_ID, INVOKE_FUNC_NAME>>, <<INIT_ACTOR_ID, UPGRADE_FUNC_NAME>>,
                      <<OTHER_ACTOR_ID, INVOKE_FUNC_NAME>>, <<INIT_ACTOR_ID, INVOKE_FUNC_NAME>>>>
    /\ last.op = "upgrade_actor" /\ last.err = "Forbidden"

\* This step is the return of a callee into the caller's op (send or
\* upgrade_actor), which resumes and finishes.
Returns(op) == Len(kstack') = Len(kstack) - 1 /\ last'.op = op

\* C11: transactional upgrade.  An upgrade_actor that fails without running
\* the entrypoint leaves the whole state tree (so the actor's code, delegated
\* address, state root and balance) as it was, with no transaction left
\* open.  When the entrypoint does run, the state tree saved for the rollback
\* is the one from before upgrade_actor was called, the swap not yet made;
\* and when the entrypoint does not return OK, the state tree after
\* upgrade_actor is that saved tree, so the swap and every change of the
\* entrypoint and its descendants are undone.
C11_UpgradeRollsBack ==
    [][/\ (CallStep("upgrade_actor") /\ last'.err # "Ok") =>
             /\ state_tree' = state_tree
             /\ tx_layers' = tx_layers
             /\ call_stack' = call_stack
       /\ (CallStep("upgrade_actor") /\ Spawns) =>
             tx_layers' = Append(tx_layers, [tree |-> state_tree, events |-> events])
       /\ (Returns("upgrade_actor") /\ (last'.err # "Ok" \/ last'.exit_code # EXIT_OK)) =>
             /\ state_tree' = tx_layers[Len(tx_layers)].tree
             /\ tx_layers' = SubSeq(tx_layers, 1, Len(tx_layers) - 1)]_vars

\* C11 witness: an upgrade to codeB failed inside its transaction, after the
\* swap, when the call of the entrypoint ran out of gas; the actor still has
\* codeA.
C11_Witness ==
    /\ kstack # <<>>
    /\ last.op = "upgrade_actor" /\ last.err = "OutOfGas"
    /\ last.arg[1] = "codeB"
    /\ last.entry = [func |-> UPGRADE_FUNC_NAME, old_code_cid |-> "codeA"]
    /\ state_tree[Top.actor_id] = InitTree[Top.actor_id]
    /\ Len(tx_layers) = Len(kstack) - 1

\* An upgrade entrypoint aborted and the actor has its old code again.
C11_AbortReached ==
    /\ kstack # <<>>
    /\ last.op = "upgrade_actor" /\ last.err = "Ok" /\ last.exit_code = USR_ABORT
    /\ last.arg[1] = "codeB"
    /\ state_tree[Top.actor_id].code = "codeA"

\* C12: the step that starts the upgrade entrypoint.  The actor's entry in
\* the state tree is already the new code with no delegated address and the
\* old state root, balance and sequence, and nothing else in the tree has
\* changed; the entrypoint is Upgrade{old_code_cid} with the code the actor
\* had before the swap; the child kernel has caller = the caller of the
\* upgrading kernel, receiver = self, value 0 and is not read-only; the frame
\* pushed is (self, UPGRADE).  (Calls have no gas limit of their own in the
\* model: the one tracker is shared.)
C12_SwapBeforeEntry ==
    [][(CallStep("upgrade_actor") /\ Spawns) =>
          LET self == Top.actor_id
              old == state_tree[self]
              child == kstack'[Len(kstack')]
          IN  /\ old.exists
              /\ state_tree' = [state_tree EXCEPT ![self] =
                                   ActorState(last'.arg[1], old.state, old.balance,
                                              old.sequence, "none")]
              /\ last'.entry = [func |-> UPGRADE_FUNC_NAME, old_code_cid |-> old.code]
              /\ child.caller = Top.caller
              /\ child.actor_id = self
              /\ child.method = METHOD_UPGRADE
              /\ child.value_received = 0
              /\ child.read_only = FALSE
              /\ call_stack' = Append(call_stack, <<self, UPGRADE_FUNC_NAME>>)
              /\ context' = context]_vars

\* C12 witness: the upgrade entrypoint of an actor with a delegated address
\* is starting: the tree has the new code and no delegated address, the
\* saved tree has the old code and the address, and the caller of the new
\* kernel is the caller of the upgrading one, not the actor itself.
C12_Witness ==
    /\ Len(kstack) >= 2
    /\ last.op = "upgrade_actor" /\ last.phase = "called"
    /\ Top.actor_id = OTHER_ACTOR_ID
    /\ Top.caller = kstack[Len(kstack) - 1].caller /\ Top.caller # Top.actor_id
    /\ state_tree[OTHER_ACTOR_ID].code = "codeB"
    /\ state_tree[OTHER_ACTOR_ID].delegated_address = "none"
    /\ tx_layers[Len(tx_layers)].tree[OTHER_ACTOR_ID].code = "codeA"
    /\ tx_layers[Len(tx_layers)].tree[OTHER_ACTOR_ID].delegated_address = "f410"
    /\ last.entry = [func |-> UPGRADE_FUNC_NAME, old_code_cid |-> "codeA"]

\* This step is a send or an upgrade_actor of the running kernel.
CallsOut == CallStep("send") \/ CallStep("upgrade_actor")

\* This step is the return of a callee into its caller.
ReturnsIn == Returns("send") \/ Returns("upgrade_actor")

\* C13: transaction discipline of send and upgrade_actor.  There is one open
\* transaction per callee, and a step never changes the saved views of the
\* transactions that stay open.  When the callee starts, the view saved for
\* its transaction is the caller's state tree from before the call (before
\* the value transfer and the code swap).  When the callee returns OK the
\* state tree keeps every change made since; when it returns another exit
\* code the state tree is the saved view again; either way the caller gets
\* an Ok result carrying that exit code (a callee stopped for running out of
\* gas gives SYS_OUT_OF_GAS), and the transaction is closed.  A call that
\* ends without running a callee leaves the tree unchanged if it fails, and
\* changed by the value transfer alone if it is a bare send that succeeds.
C13_TransactionDiscipline ==
    [][/\ Len(tx_layers') = Len(kstack') - 1
       /\ \A i \in 1..Min(Len(tx_layers), Len(tx_layers')) : tx_layers'[i] = tx_layers[i]
       /\ (CallsOut /\ Spawns) =>
             tx_layers' = Append(tx_layers, [tree |-> state_tree, events |-> events])
       /\ (CallsOut /\ ~Spawns) =>
             /\ tx_layers' = tx_layers
             /\ last'.err # "Ok" => state_tree' = state_tree
             /\ (last'.err = "Ok" /\ last'.op = "send") =>
                   state_tree' =
                       [[state_tree EXCEPT ![Top.actor_id].balance = @ - last'.arg[4]]
                                    EXCEPT ![last'.arg[1]].balance = @ + last'.arg[4]]
       /\ ReturnsIn =>
             /\ last'.err = "Ok"
             /\ last.err = "OutOfGas" => last'.exit_code = SYS_OUT_OF_GAS
             /\ tx_layers' = SubSeq(tx_layers, 1, Len(tx_layers) - 1)
             /\ state_tree' = IF last'.exit_code = EXIT_OK THEN state_tree
                              ELSE tx_layers[Len(tx_layers)].tree
             /\ events' = IF last'.exit_code = EXIT_OK THEN events
                          ELSE tx_layers[Len(tx_layers)].events]_vars

\* C13 witness: a send of value 1 to a callee that aborted has returned Ok
\* with the callee's exit code, and the state tree is the initial one again:
\* the transfer is undone.
C13_Witness ==
    /\ Len(kstack) = 1 /\ tx_layers = <<>>
    /\ last.op = "send" /\ last.err = "Ok" /\ last.exit_code = USR_ABORT
    /\ last.arg[2] # METHOD_SEND /\ last.arg[4] = 1
    /\ state_tree = InitTree

\* A send of value to a callee that returned OK: the transfer is in the
\* caller's view.
C13_CommitReached ==
    /\ Len(kstack) = 1 /\ tx_layers = <<>>
    /\ last.op = "send" /\ last.err = "Ok" /\ last.exit_code = EXIT_OK
    /\ last.arg[2] # METHOD_SEND /\ last.arg[4] = 1 /\ last.arg[1] # Top.actor_id
    /\ state_tree[Top.actor_id].balance = 0
    /\ state_tree[last.arg[1]].balance = 2

\* The caller's registry before a return step and after it.
CallerBlocks == kstack[Len(kstack) - 1].blocks
CallerBlocksAfter == kstack'[Len(kstack')].blocks

\* This step is the return of a callee to its caller.
CalleeReturns == Len(kstack') = Len(kstack) - 1

\* The result of send and upgrade_actor apart from the reachability of the
\* returned block: with a value block, exactly that block is added to the
\* caller's registry under a handle that is not zero and was not in use, and
\* the result is {handle, the block's stat, exit_code}; with no value, the
\* caller's registry is unchanged and the result is {0, {0, 0}, exit_code}.
CallResult ==
    /\ last'.op \in {"send", "upgrade_actor"} /\ last'.err = "Ok"
    /\ (last'.exit_code = SYS_OUT_OF_GAS) = (last.err = "OutOfGas")
    /\ last'.ret \in Range(Top.blocks.blocks) \cup {NoBlock}
    /\ IF last'.ret # NoBlock
       THEN /\ CallerBlocksAfter.blocks = Append(CallerBlocks.blocks, last'.ret)
            /\ last'.id # NO_DATA_BLOCK_ID
            /\ ~HasBlock(CallerBlocks, last'.id)
            /\ HasBlock(CallerBlocksAfter, last'.id)
            /\ GetBlock(CallerBlocksAfter, last'.id) = last'.ret
            /\ last'.stat = BlockStat(last'.ret)
       ELSE /\ CallerBlocksAfter = CallerBlocks
            /\ last'.id = NO_DATA_BLOCK_ID
            /\ last'.stat = NoStat

\* C14, as claimed: the result of send and upgrade_actor is as above, and a
\* returned value block is itself marked reachable: its CID is in the
\* caller's reachable set.
C14_ReturnedBlockReachable ==
    [][CalleeReturns =>
          /\ CallResult
          /\ last'.ret # NoBlock => is_reachable(CallerBlocksAfter, CidOf(last'.ret))]_vars

\* C14, amended: the result of send and upgrade_actor is as above, and a
\* returned value block is admitted as put_reachable admits: the links found
\* in it are added to the caller's reachable set, and nothing else is, the
\* block's own CID included.
C14_CallResult ==
    [][CalleeReturns =>
          /\ CallResult
          /\ last'.ret # NoBlock =>
                /\ CallerBlocksAfter.reachable =
                      CallerBlocks.reachable \cup LinksOf(last'.ret)
                /\ Range(last'.ret.children) = LinksOf(last'.ret)]_vars

\* C14 witness: upgrade_actor has returned the callee's block, a node with a
\* link in it, under the first free handle of a caller that held one block
\* already; the link is reachable in the caller and the block's CID is not.
C14_Witness ==
    /\ Len(kstack) = 1
    /\ last.op = "upgrade_actor" /\ last.err = "Ok" /\ last.exit_code = EXIT_OK
    /\ last.ret # NoBlock /\ LinksOf(last.ret) # {}
    /\ last.id = FIRST_ID + 1
    /\ Len(Top.blocks.blocks) = 2
    /\ GetBlock(Top.blocks, last.id) = last.ret
    /\ last.stat = BlockStat(last.ret)
    /\ LinksOf(last.ret) \subseteq Top.blocks.reachable
    /\ ~is_reachable(Top.blocks, CidOf(last.ret))

\* A send has returned with no value: handle 0 and the empty stat.
C14_NoValueReached ==
    /\ Len(kstack) = 1
    /\ last.op = "send" /\ last.err = "Ok" /\ last.phase = "done"
    /\ last.arg[2] # METHOD_SEND
    /\ last.ret = NoBlock /\ last.id = NO_DATA_BLOCK_ID /\ last.stat = NoStat
    /\ Top.blocks.blocks # <<>>
\* This step is a send or an upgrade_actor of a kernel whose registry is
\* full, and none of the checks made before the parameters are looked at
\* (read-only, the call stack) refuses it.
CallsWhenFull ==
    /\ is_full(Top.blocks)
    /\ \/ /\ CallStep("send")
          /\ ~((Top.read_only \/ last'.arg[5]) /\ last'.arg[4] # 0)
       \/ /\ CallStep("upgrade_actor")
          /\ ~Top.read_only
          /\ ~UpgradeForbidden(call_stack, Top.actor_id)

\* The params handle of the send or upgrade_actor of this step.
ParamsIdOfStep == IF last'.op = "send" THEN last'.arg[3] ELSE last'.arg[2]

\* C15: with the caller's registry full, send and upgrade_actor fail with
\* LimitExceeded before the call: no child kernel is spawned, no transaction
\* is opened, no value moves, the code CID stays, the registry is unchanged
\* and nothing is charged; but a params handle that is non-zero and invalid
\* is reported (InvalidHandle) before the fullness is.
C15_FullRegistryRefuses ==
    [][CallsWhenFull =>
          /\ last'.err = IF /\ ParamsIdOfStep # NO_DATA_BLOCK_ID
                            /\ ~HasBlock(Top.blocks, ParamsIdOfStep)
                         THEN "InvalidHandle"
                         ELSE "LimitExceeded"
          /\ ~Spawns
          /\ last'.charges = <<>>
          /\ UNCHANGED <<KernelState, gas_used>>]_vars

\* C15 witness: a send of value with a valid params handle out of a full
\* registry was refused with LimitExceeded; the balances are as at the start.
C15_Witness ==
    /\ Len(kstack) = 1 /\ tx_layers = <<>>
    /\ is_full(Top.blocks)
    /\ last.op = "send" /\ last.err = "LimitExceeded"
    /\ last.arg[3] # NO_DATA_BLOCK_ID /\ last.arg[4] = 1
    /\ state_tree = InitTree

\* upgrade_actor out of a full registry was refused, and the code CID stays.
C15_UpgradeReached ==
    /\ Len(kstack) = 1 /\ tx_layers = <<>>
    /\ is_full(Top.blocks)
    /\ last.op = "upgrade_actor" /\ last.err = "LimitExceeded"
    /\ state_tree[Top.actor_id].code = "codeA"

\* An invalid params handle was reported out of a full registry.
C15_InvalidHandleReached ==
    /\ is_full(Top.blocks)
    /\ last.op \in {"send", "upgrade_actor"} /\ last.err = "InvalidHandle"
\* The registry a child kernel starts with when the call of this step passes
\* the block under the caller's handle ParamsIdOfStep.
RegistryWith(params_id) ==
    IF params_id = NO_DATA_BLOCK_ID THEN EmptyRegistry
    ELSE LET params == GetBlock(Top.blocks, params_id)
         IN  [blocks |-> <<params>>, reachable |-> LinksOf(params)]

\* The registries of the kernels i of the stack are the same after the step.
RegistriesKept(is) == \A i \in is : kstack'[i].blocks = kstack[i].blocks

\* No step shares a registry between kernels: a kernel's block_open of a CID
\* that is not in its own reachable set fails NotFound whatever the other
\* kernels on the stack can reach; a step of the running kernel changes no
\* registry but its own; a call leaves every registry as it is; and a return
\* changes the caller's registry by the return block alone (the block under
\* the next handle, its links reachable).
RegistriesApart ==
    /\ (CallStep("block_open") /\ ~is_reachable(Top.blocks, last'.arg[1])) =>
          /\ last'.err \in {"NotFound", "OutOfGas"}
          /\ RegistriesKept(DOMAIN kstack)
    /\ Len(kstack') = Len(kstack) => RegistriesKept(1..(Len(kstack) - 1))
    /\ Spawns => RegistriesKept(DOMAIN kstack)
    /\ CalleeReturns =>
          /\ RegistriesKept(1..(Len(kstack) - 2))
          /\ CallerBlocksAfter =
                IF last'.ret = NoBlock THEN CallerBlocks
                ELSE [blocks |-> Append(CallerBlocks.blocks, last'.ret),
                      reachable |-> CallerBlocks.reachable \cup LinksOf(last'.ret)]

\* C16, as claimed: registries are not shared, and a child kernel spawned by
\* send or upgrade_actor starts with an empty registry and an empty
\* reachable set.
C16_ChildStartsEmpty ==
    [][/\ RegistriesApart
       /\ Spawns => kstack'[Len(kstack')].blocks = EmptyRegistry]_vars

\* C16, amended: registries are not shared, and a child kernel spawned by
\* send or upgrade_actor starts with a registry of its own that holds the
\* parameters block alone, under the first handle, with the links of that
\* block as its reachable set; it is empty when no parameters are passed.
C16_RegistriesNotShared ==
    [][/\ RegistriesApart
       /\ Spawns =>
             /\ kstack'[Len(kstack')].blocks = RegistryWith(ParamsIdOfStep)
             /\ kstack'[Len(kstack')].origin =
                   IF ParamsIdOfStep = NO_DATA_BLOCK_ID THEN <<>> ELSE <<"params">>]_vars

\* C16 witness: a child that was called without parameters has failed to
\* open the CID of the state root, which its caller can reach (the caller
\* holds a block and has the CID in its reachable set) and the child cannot.
C16_Witness ==
    /\ Len(kstack) = 2
    /\ last.op = "block_open" /\ last.err = "NotFound"
    /\ last.arg = <<NodeCid>>
    /\ is_reachable(kstack[1].blocks, NodeCid)
    /\ kstack[1].blocks.blocks # <<>>
    /\ Top.blocks = EmptyRegistry

\* A child was called with a parameters block that links to the leaf: it
\* starts with the block and with the leaf reachable, and has opened the leaf.
C16_ParamsReached ==
    /\ Len(kstack) = 2
    /\ Top.origin = <<"params", "open">>
    /\ LinksOf(Top.blocks.blocks[1]) = {LeafCid}
    /\ last.op = "block_open" /\ last.err = "Ok" /\ last.arg = <<LeafCid>>

\* A child has made the CID of its state root reachable for itself; its
\* caller's registry is still empty.
C16_IntroducedReached ==
    /\ Len(kstack) = 2
    /\ last.op = "root" /\ last.err = "Ok" /\ last.cid = NodeCid
    /\ is_reachable(Top.blocks, NodeCid)
    /\ kstack[1].blocks = EmptyRegistry
\* The kernels that are on the stack before the step and after it.
KernelsKept == 1..Min(Len(kstack), Len(kstack'))

\* The index of the kernel a step returns its result to: the running
\* kernel, or its caller when the step is the return of the running kernel.
ResultKernel == IF CalleeReturns THEN Len(kstack) - 1 ELSE Len(kstack)

\* C17: handles are stable.  Over every step (a syscall of the running
\* kernel, failing or not, a call, a return), every handle of every kernel
\* that stays on the stack denotes the same block after the step as before:
\* no block is removed or replaced.  A handle returned by block_open,
\* block_create, send or upgrade_actor is not zero and was not a handle of
\* the kernel before, and the registry grows by that one handle.  block_stat
\* and block_read of a handle answer from the block under it (codec, size,
\* bytes), and handle 0 denotes no block: block_stat(0) and block_read(0, ..)
\* fail InvalidHandle.
C17_HandlesStable ==
    [][/\ \A i \in KernelsKept :
             LET old == kstack[i].blocks.blocks
                 new == kstack'[i].blocks.blocks
             IN  /\ Len(new) >= Len(old)
                 /\ SubSeq(new, 1, Len(old)) = old
                 /\ IF /\ i = ResultKernel
                       /\ last'.op \in {"block_open", "block_create", "send",
                                        "upgrade_actor"}
                       /\ last'.id # NO_DATA_BLOCK_ID
                    THEN /\ Len(new) = Len(old) + 1
                         /\ ~HasBlock(kstack[i].blocks, last'.id)
                         /\ HasBlock(kstack'[i].blocks, last'.id)
                    ELSE Len(new) = Len(old)
       /\ ~HasBlock(kstack'[Len(kstack')].blocks, NO_DATA_BLOCK_ID)
       /\ CallStep("block_stat") =>
             IF HasBlock(Top.blocks, last'.arg[1])
             THEN /\ last'.err \in {"Ok", "OutOfGas"}
                  /\ last'.err = "Ok" =>
                        last'.stat = BlockStat(GetBlock(Top.blocks, last'.arg[1]))
             ELSE last'.err \in {"InvalidHandle", "OutOfGas"}
       /\ (CallStep("block_read") /\ FitsI32(AddU64(last'.arg[2], last'.arg[3]))) =>
             IF HasBlock(Top.blocks, last'.arg[1])
             THEN /\ last'.err \in {"Ok", "OutOfGas"}
                  /\ (/\ last'.err = "Ok"
                      /\ AsInt(last'.arg[2]) = 0
                      /\ AsInt(last'.arg[3]) >=
                            Len(GetBlock(Top.blocks, last'.arg[1]).data)) =>
                        last'.copied = GetBlock(Top.blocks, last'.arg[1]).data
             ELSE last'.err = "InvalidHandle"]_vars

\* C17 witness: the kernel created a block, then called an actor that
\* returned a block; block_stat of the first handle still gives the stat of
\* the created block, which differs from the stat of the returned one.
C17_Witness ==
    /\ Len(kstack) = 1
    /\ Top.origin = <<"create", "return">>
    /\ last.op = "block_stat" /\ last.err = "Ok" /\ last.arg = <<FIRST_ID>>
    /\ last.stat = BlockStat(GetBlock(Top.blocks, FIRST_ID))
    /\ last.stat # BlockStat(GetBlock(Top.blocks, FIRST_ID + 1))

\* The bytes of a block are read back under its handle after a failed
\* block_create out of the full registry.
C17_ReadReached ==
    /\ is_full(Top.blocks)
    /\ last.op = "block_read" /\ last.err = "Ok" /\ last.arg[1] = FIRST_ID + 1
    /\ last.copied = GetBlock(Top.blocks, FIRST_ID + 1).data
    /\ last.copied # <<>>

\* block_stat of handle 0 has failed.
C17_ZeroHandleReached ==
    /\ kstack # <<>> /\ Top.blocks.blocks # <<>>
    /\ last.op = "block_stat" /\ last.arg = <<NO_DATA_BLOCK_ID>>
    /\ last.err = "InvalidHandle"
\* The sum of the amounts of a sequence of charges.
RECURSIVE Charged(_)
Charged(charges) ==
    IF charges = <<>> THEN 0
    ELSE charges[1][2] + Charged(SubSeq(charges, 2, Len(charges)))

\* C18: gas is monotonic and the tracker is one for the whole call stack.
\* Over every step of every kernel, gas_used does not decrease and stays
\* within the limit; a syscall raises it by the charges it made, whether it
\* succeeds or fails with a classified error, and to the limit when it runs
\* out of gas; a call that spawns a callee keeps what it charged; and the
\* return of a callee leaves gas_used as the callee left it, whether the
\* callee's transaction is committed or rolled back.
C18_GasMonotonic ==
    [][/\ gas_used' >= gas_used
       /\ gas_used' <= context.gas_limit
       /\ CalleeReturns => gas_used' = gas_used /\ last'.charges = <<>>
       /\ ~CalleeReturns =>
             gas_used' = IF last'.err = "OutOfGas" THEN context.gas_limit
                         ELSE gas_used + Charged(last'.charges)]_vars

\* C18 witness: a send of value was rolled back (the callee aborted, and the
\* state tree is as at the start), and the gas of the send and of the
\* callee's syscall is still counted.
C18_Witness ==
    /\ Len(kstack) = 1
    /\ last.op = "send" /\ last.err = "Ok" /\ last.exit_code = USR_ABORT
    /\ last.arg[4] = 1
    /\ state_tree = InitTree
    /\ gas_used = on_value_transfer + on_method_invocation + on_get_root

\* A syscall that failed with a classified error has charged.
C18_ChargedFailureReached ==
    /\ last.op = "self_destruct" /\ last.err = "IllegalOperation"
    /\ last.charges # <<>>
    /\ gas_used >= Charged(last.charges)
\* The sum of the balances of the actors of a state tree.
RECURSIVE TotalOf(_, _)
TotalOf(tree, ids) ==
    IF ids = {} THEN 0
    ELSE LET id == CHOOSE i \in ids : TRUE
         IN  (IF tree[id].exists THEN tree[id].balance ELSE 0) + TotalOf(tree, ids \ {id})

\* The balance of the running kernel's actor: zero when the actor is gone.
SelfBalance ==
    IF state_tree[Top.actor_id].exists THEN state_tree[Top.actor_id].balance ELSE 0

\* C19: self_destruct(burn_unspent) in a kernel that is not read-only.  With
\* a non-zero balance and burn_unspent false it fails IllegalOperation and
\* the state tree is unchanged: the actor exists with its balance.  Otherwise
\* it succeeds: the whole balance has gone to the burnt-funds actor, whose
\* balance grew by exactly that amount, the actor is deleted, nothing else
\* in the state tree changed and the total of the balances is the same.  (A
\* self_destruct that runs out of gas changes nothing.)
C19_SelfDestruct ==
    [][(CallStep("self_destruct") /\ ~Top.read_only) =>
          LET self == Top.actor_id
              burn_unspent == last'.arg[1]
          IN  IF SelfBalance # 0 /\ ~burn_unspent
              THEN /\ last'.err \in {"IllegalOperation", "OutOfGas"}
                   /\ state_tree' = state_tree
              ELSE /\ last'.err \in {"Ok", "OutOfGas"}
                   /\ last'.err = "OutOfGas" => state_tree' = state_tree
                   /\ last'.err = "Ok" =>
                         /\ state_tree' =
                               [state_tree EXCEPT
                                  ![BURNT_FUNDS_ACTOR_ID].balance = @ + SelfBalance,
                                  ![self] = NoActor]
                         /\ TotalOf(state_tree', ActorIds) = TotalOf(state_tree, ActorIds)]_vars

\* C19 witness: an actor that had received value destroyed itself burning
\* its balance of 2: the actor is gone and the burnt-funds actor holds 2.
C19_Witness ==
    /\ Len(kstack) = 2
    /\ last.op = "self_destruct" /\ last.err = "Ok" /\ last.arg = <<TRUE>>
    /\ Top.value_received = 1 /\ Top.actor_id # Top.caller
    /\ ~state_tree[Top.actor_id].exists
    /\ state_tree[Top.caller].balance = 0
    /\ state_tree[BURNT_FUNDS_ACTOR_ID].balance = 2
    /\ TotalOf(state_tree, ActorIds) = TotalOf(InitTree, ActorIds)

\* self_destruct without burning was refused an actor with a balance.
C19_RefusedReached ==
    /\ last.op = "self_destruct" /\ last.err = "IllegalOperation"
    /\ last.arg = <<FALSE>>
    /\ state_tree[Top.actor_id].exists /\ state_tree[Top.actor_id].balance = 1

\* An actor that had sent its balance away destroyed itself without burning.
C19_EmptyReached ==
    /\ last.op = "self_destruct" /\ last.err = "Ok" /\ last.arg = <<FALSE>>
    /\ state_tree[BURNT_FUNDS_ACTOR_ID].balance = 0

\* C20: self_destruct is idempotent.  Called when the kernel's actor is
\* already deleted, it succeeds for either value of burn_unspent (or runs
\* out of gas), moves no balance and leaves the state tree, the events and
\* the call stack as they are; only gas is charged, for the deletion and for
\* the balance, which reads as zero.
C20_Idempotent ==
    [][(CallStep("self_destruct") /\ ~state_tree[Top.actor_id].exists) =>
          /\ last'.err \in {"Ok", "OutOfGas"}
          /\ last'.err = "Ok" =>
                /\ last'.charges = <<<<"OnDeleteActor", on_delete_actor>>,
                                     <<"OnSelfBalance", on_self_balance>>>>
                /\ gas_used' = gas_used + on_delete_actor + on_self_balance
          /\ UNCHANGED KernelState]_vars

\* C20 witness: an actor has destroyed itself twice in a row, the second
\* time without burning; the burnt-funds actor holds what the first burnt.
C20_Witness ==
    /\ kstack # <<>>
    /\ last.op = "self_destruct" /\ last.err = "Ok" /\ last.arg = <<FALSE>>
    /\ ~state_tree[Top.actor_id].exists
    /\ gas_used = 2 * (on_delete_actor + on_self_balance)
    /\ state_tree[BURNT_FUNDS_ACTOR_ID].balance = 1

\* The same with burn_unspent true the second time, by the caller of an
\* actor that is the caller itself and destroyed itself before returning.
C20_BurnReached ==
    /\ Len(kstack) = 1
    /\ last.op = "self_destruct" /\ last.arg = <<TRUE>>
    /\ last.err \in {"Ok", "OutOfGas"}
    /\ last.charges # <<>>
    /\ gas_used > on_delete_actor + on_self_balance
    /\ ~state_tree[Top.actor_id].exists
    /\ state_tree[BURNT_FUNDS_ACTOR_ID].balance = 1
\* The event given to the emit_event of this step.
EvHeaders == last'.arg[1]
EvKeys == last'.arg[2]
EvValues == last'.arg[3]

\* The sums of the key_len and of the val_len of headers lo..hi.
RECURSIVE KeyLenSum(_, _, _)
KeyLenSum(headers, lo, hi) ==
    IF lo > hi THEN 0
    ELSE IF lo = hi THEN headers[lo].key_len
    ELSE LET mid == (lo + hi) \div 2
         IN  KeyLenSum(headers, lo, mid) + KeyLenSum(headers, mid + 1, hi)
RECURSIVE ValLenSum(_, _, _)
ValLenSum(headers, lo, hi) ==
    IF lo > hi THEN 0
    ELSE IF lo = hi THEN headers[lo].val_len
    ELSE LET mid == (lo + hi) \div 2
         IN  ValLenSum(headers, lo, mid) + ValLenSum(headers, mid + 1, hi)

\* The headers partition both buffers: their key_len add up to |keys| and
\* their val_len to |values|.
Partitions(headers, keys, values) ==
    /\ KeyLenSum(headers, 1, Len(headers)) = Len(keys)
    /\ ValLenSum(headers, 1, Len(headers)) = Len(values)

\* Nothing is wrong with the event but, possibly, its sizes: the keys are
\* ASCII, every header has flags that are flags and the raw codec, and the
\* headers partition the buffers.
SoundButForSize(headers, keys, values) ==
    /\ \A i \in DOMAIN keys : keys[i] < 128
    /\ \A i \in DOMAIN headers :
          headers[i].flags <= FLAGS_ALL /\ headers[i].codec = IPLD_RAW
    /\ Partitions(headers, keys, values)

C21_EntriesReached ==
    /\ last.op = "emit_event" /\ last.err = "LimitExceeded"
    /\ Len(last.arg[1]) = MAX_NR_ENTRIES + 1 /\ events = <<>>

\* 8193 bytes of values were refused.
C21_ValuesReached ==
    /\ last.op = "emit_event" /\ last.err = "LimitExceeded"
    /\ Len(last.arg[3]) = MAX_TOTAL_VALUES_LEN + 1 /\ events = <<>>

\* 8192 bytes of values were allowed.
C21_ValuesAllowedReached ==
    /\ last.op = "emit_event" /\ last.err = "Ok"
    /\ Len(events) = 1 /\ Len(events[1].entries[1].value) = MAX_TOTAL_VALUES_LEN

\* A key of 31 bytes was allowed.
C21_KeyReached ==
    /\ last.op = "emit_event" /\ last.err = "Ok"
    /\ Len(events) = 1 /\ Len(events[1].entries[1].key) = MAX_KEY_LEN

\* A key of 32 bytes under invalid flags was refused with IllegalArgument.
C21_FlagsFirstReached ==
    /\ last.op = "emit_event" /\ last.err = "IllegalArgument"
    /\ Len(last.arg[1]) = 1 /\ last.arg[1][1].key_len = MAX_KEY_LEN + 1
\* Nothing is wrong with the event but, possibly, how its headers add up:
\* it is within the three limits, the keys are ASCII, and every header has
\* flags that are flags and the raw codec.
SoundButForLengths(headers, keys, values) ==
    /\ Len(headers) <= MAX_NR_ENTRIES
    /\ Len(values) <= MAX_TOTAL_VALUES_LEN
    /\ \A i \in DOMAIN keys : keys[i] < 128
    /\ \A i \in DOMAIN headers :
          /\ headers[i].flags <= FLAGS_ALL
          /\ headers[i].codec = IPLD_RAW
          /\ headers[i].key_len <= MAX_KEY_LEN

C22_KeysLeftReached ==
    /\ last.op = "emit_event" /\ last.err = "IllegalArgument"
    /\ KeyLenSum(last.arg[1], 1, Len(last.arg[1])) < Len(last.arg[2])
    /\ ValLenSum(last.arg[1], 1, Len(last.arg[1])) = Len(last.arg[3])

\* Values left over after the last header were refused.
C22_ValuesLeftReached ==
    /\ last.op = "emit_event" /\ last.err = "IllegalArgument"
    /\ KeyLenSum(last.arg[1], 1, Len(last.arg[1])) = Len(last.arg[2])
    /\ ValLenSum(last.arg[1], 1, Len(last.arg[1])) < Len(last.arg[3])

\* A key that runs past the end of the keys was refused.
C22_KeyPastReached ==
    /\ last.op = "emit_event" /\ last.err = "IllegalArgument"
    /\ KeyLenSum(last.arg[1], 1, Len(last.arg[1])) > Len(last.arg[2])
\* The entry that header i of the event of this step stands for: its flags
\* and codec, and the slices of keys and values after those of the headers
\* before it.
EvEntry(i) ==
    [flags |-> EvHeaders[i].flags,
     key |-> SubSeq(EvKeys, KeyLenSum(EvHeaders, 1, i - 1) + 1, KeyLenSum(EvHeaders, 1, i)),
     codec |-> EvHeaders[i].codec,
     value |-> SubSeq(EvValues, ValLenSum(EvHeaders, 1, i - 1) + 1,
                      ValLenSum(EvHeaders, 1, i))]

\* C23: the event log.  A successful emit_event appends exactly one event,
\* stamped with the actor id of the kernel that emitted it (its receiver,
\* not its caller), holding one entry per header, in header order, made of
\* the consecutive slices of keys and values.  A failing emit_event and
\* every other syscall leave the log as it is.  The return of a callee
\* leaves the log as it is when the callee exits OK, and otherwise takes it
\* back to what it was when the call was made; in both cases what was in
\* the log when the call was made stays, in order.
C23_EventLog ==
    [][/\ (CallStep("emit_event") /\ last'.err = "Ok") =>
             /\ Len(events') = Len(events) + 1
             /\ SubSeq(events', 1, Len(events)) = events
             /\ LET ev == events'[Len(events')]
                IN  /\ ev.emitter = Top.actor_id
                    /\ Len(ev.entries) = Len(EvHeaders)
                    /\ \A i \in DOMAIN EvHeaders : ev.entries[i] = EvEntry(i)
       /\ (~CalleeReturns /\ ~(last'.op = "emit_event" /\ last'.err = "Ok")) =>
             events' = events
       /\ CalleeReturns =>
             LET at_call == tx_layers[Len(tx_layers)].events
             IN  /\ events' = IF last'.exit_code = EXIT_OK THEN events ELSE at_call
                 /\ Len(at_call) <= Len(events')
                 /\ SubSeq(events', 1, Len(at_call)) = at_call]_vars

\* C23 witness: an actor called by another has emitted an event of two
\* entries; the event is stamped with the callee and not with its caller,
\* and comes after the event its caller had emitted before the call.
C23_Witness ==
    /\ Len(kstack) = 2
    /\ Top.caller # Top.actor_id
    /\ last.op = "emit_event" /\ last.err = "Ok"
    /\ Len(events) = 2
    /\ events[1].emitter = Top.caller
    /\ events[2].emitter = Top.actor_id
    /\ Len(events[2].entries) = 2
    /\ events[2].entries[2].key = <<98, 99>>
    /\ events[2].entries[1].value = <<7>>

\* A callee that had emitted an event aborted: its event is gone from the
\* log, the one emitted before the call is still there.
C23_RolledBackReached ==
    /\ Len(kstack) = 1
    /\ last.op = "send" /\ last.exit_code = USR_ABORT
    /\ gas_used = LogGasLimit
    /\ Len(events) = 1 /\ events[1].emitter = Top.actor_id

\* A callee that had emitted an event returned OK: its event stays.
C23_CommittedReached ==
    /\ Len(kstack) = 1
    /\ last.op = "send" /\ last.exit_code = EXIT_OK
    /\ Len(events) = 1 /\ events[1].emitter # Top.actor_id
\* C24: create_actor gets to the call manager only when the calling actor is
\* the Init actor and the kernel is not read-only.  Any other actor gets
\* Forbidden, read-only or not; the Init actor in a read-only kernel gets
\* ReadOnly; in both cases no actor is created, nothing of the kernel's
\* state changes and no gas is charged.
C24_CreateActorGate ==
    [][CallStep("create_actor") =>
          /\ Top.actor_id # INIT_ACTOR_ID =>
                (last'.err = "Forbidden" /\ last'.charges = <<>> /\ UNCHANGED KernelState)
          /\ (Top.actor_id = INIT_ACTOR_ID /\ Top.read_only) =>
                (last'.err = "ReadOnly" /\ last'.charges = <<>> /\ UNCHANGED KernelState)
          /\ (last'.charges # <<>> \/ state_tree' # state_tree) =>
                (Top.actor_id = INIT_ACTOR_ID /\ ~Top.read_only)
          /\ (Top.actor_id = INIT_ACTOR_ID /\ ~Top.read_only) =>
                (last'.err # "ReadOnly" /\ last'.charges # <<>>)]_vars

\* C24 witness: an actor other than the Init actor, running read-only, was
\* refused create_actor with Forbidden; the new actor is not in the state
\* tree.
C24_Witness ==
    /\ kstack # <<>>
    /\ Top.read_only /\ Top.actor_id # INIT_ACTOR_ID
    /\ last.op = "create_actor" /\ last.err = "Forbidden"
    /\ ~state_tree[NEW_ACTOR_ID].exists

\* The Init actor, not read-only, created the actor.
C24_CreatedReached ==
    /\ kstack # <<>>
    /\ ~Top.read_only /\ Top.actor_id = INIT_ACTOR_ID
    /\ last.op = "create_actor" /\ last.err = "Ok"
    /\ state_tree[NEW_ACTOR_ID].exists

\* An actor other than the Init actor, not read-only, was refused.
C24_ForbiddenReached ==
    /\ kstack # <<>>
    /\ ~Top.read_only /\ Top.actor_id # INIT_ACTOR_ID
    /\ last.op = "create_actor" /\ last.err = "Forbidden"
\* Some item of the batch was taken by a worker.
VerifyStarted(b) == b.running # {} \/ b.done # {}

\* batch_verify_seals has returned Ok(out).
BatchReturned ==
    /\ batch.pc = "idle" /\ last.op = "batch_verify_seals" /\ last.err = "Ok"
    /\ last.arg = <<batch.vis>>

\* C25: batch_verify_seals returns a vector as long as its input whose
\* position i is the result for input i, whatever the order in which the
\* workers take and finish the items: true when the library finds the seal
\* valid, false when it finds it invalid, fails or panics.  A panic or a
\* failure changes no other position, and once verification has begun the
\* call ends in Ok and the kernel is still there.
C25_ResultsInPlace ==
    /\ DOMAIN batch.out = DOMAIN batch.vis
    /\ batch.done \subseteq DOMAIN batch.vis
    /\ \A i \in batch.done : batch.out[i] = (batch.vis[i].lib = "valid")
    /\ (batch.pc = "idle" /\ VerifyStarted(batch)) =>
          /\ last = batch.res /\ last.err = "Ok"
          /\ batch.done = DOMAIN batch.vis
          /\ kstack # <<>>
    /\ BatchReturned => batch.done = DOMAIN batch.vis

\* C25 witness: the call has returned for a batch whose first seal makes the
\* library panic and whose second is valid: false, then true.
C25_Witness ==
    /\ BatchReturned
    /\ Len(batch.vis) = 2
    /\ batch.vis[1].lib = "panic" /\ batch.vis[2].lib = "valid"
    /\ batch.out = <<FALSE, TRUE>>

\* The second item was finished while the first was still with its worker.
C25_OutOfOrderReached ==
    /\ batch.pc = "called"
    /\ Len(batch.vis) = 2
    /\ batch.running = {1}
    /\ batch.done = {2} /\ batch.out[2] = TRUE
    /\ batch.vis[1].lib = "error"

\* C26: batch_verify_seals charges the seal-verify gas of every entry, in
\* input order, before any item is taken by a worker.  When a charge fails
\* the call returns that error and no item was verified; an item is only
\* ever verified after the charges of all entries were made, and the call
\* returns Ok only with every item verified.
C26_ChargedBeforeVerified ==
    [][/\ (batch.pc = "called" /\ Len(batch'.res.charges) # Len(batch.res.charges)) =>
             /\ ~VerifyStarted(batch) /\ ~VerifyStarted(batch')
             /\ \A i \in DOMAIN batch'.res.charges :
                   batch'.res.charges[i] = <<"OnVerifySeal", on_verify_seal(batch'.vis[i])>>
       /\ VerifyStarted(batch') =>
             /\ batch'.res.err = "Ok"
             /\ Len(batch'.res.charges) = Len(batch'.vis)
             /\ \A i \in DOMAIN batch'.vis :
                   batch'.res.charges[i] = <<"OnVerifySeal", on_verify_seal(batch'.vis[i])>>
       /\ (batch.pc = "called" /\ batch'.pc = "idle") =>
             /\ last' = batch'.res
             /\ last'.err \in {"Ok", "OutOfGas"}
             /\ last'.err = "OutOfGas" => ~VerifyStarted(batch')
             /\ last'.err = "Ok" => batch'.done = DOMAIN batch'.vis]_vars

\* C26 witness: the charge for the second of two entries failed after the
\* first was charged; the call returned the error with nothing verified.
C26_Witness ==
    /\ batch.pc = "idle"
    /\ last.op = "batch_verify_seals" /\ last.err = "OutOfGas"
    /\ Len(batch.vis) = 2 /\ Len(batch.items) = 1
    /\ Len(last.charges) = 2
    /\ gas_used = context.gas_limit
    /\ ~VerifyStarted(batch)

\* A batch of two entries of different prices was charged and verified.
C26_AllVerifiedReached ==
    /\ BatchReturned
    /\ last.charges = <<<<"OnVerifySeal", 2>>, <<"OnVerifySeal", 1>>>>
    /\ batch.out = <<TRUE, FALSE>>
ProofOps ==
    {"compute_unsealed_sector_cid", "verify_post", "verify_aggregate_seals",
     "verify_replica_update"}

\* The proof syscall of this step is given an input on which the code behind
\* the barrier panics: a piece of size 0, a randomness shorter than 32
\* bytes, an empty list of proofs, or an input the library panics on.
PanicsBehindBarrier ==
    LET arg == last'.arg
    IN  CASE last'.op = "compute_unsealed_sector_cid" ->
                (\E i \in DOMAIN arg[2] : arg[2][i] = 0) \/ arg[3] = "panic"
          [] last'.op = "verify_post" ->
                \/ arg[1].randomness_len < 32
                \/ arg[1].proofs = <<>>
                \/ /\ \A i \in DOMAIN arg[1].proofs : arg[1].proofs[i] = arg[1].proofs[1]
                   /\ arg[1].sectors_ok
                   /\ arg[1].lib = "panic"
          [] last'.op = "verify_aggregate_seals" -> arg[1].infos > 0 /\ arg[1].lib = "panic"
          [] last'.op = "verify_replica_update" -> arg[1].lib = "panic"
          [] OTHER -> FALSE

\* C27: panic containment.  A panic inside compute_unsealed_sector_cid,
\* verify_post, verify_aggregate_seals or verify_replica_update comes back to
\* the guest as IllegalArgument, after the gas of the operation was charged
\* (when the gas is not there the charge fails first and nothing panics);
\* the kernels, their registries, the state tree and the rest of the call
\* manager are as before, and the kernel takes further syscalls.
C27_PanicContained ==
    [][(\E op \in ProofOps : CallStep(op)) =>
          /\ Len(last'.charges) = 1
          /\ UNCHANGED KernelState
          /\ PanicsBehindBarrier =>
                /\ last'.err \in {"IllegalArgument", "OutOfGas"}
                /\ last'.err = "OutOfGas" <=>
                      gas_used + last'.charges[1][2] > context.gas_limit
                /\ last'.err = "IllegalArgument" =>
                      /\ gas_used' = gas_used + last'.charges[1][2]
                      /\ Running']_vars

\* C27 witness: verify_post was given an empty list of proofs and returned
\* IllegalArgument, its gas charged, the kernel still there.
C27_Witness ==
    /\ kstack # <<>>
    /\ last.op = "verify_post" /\ last.err = "IllegalArgument"
    /\ last.arg[1].proofs = <<>> /\ last.arg[1].randomness_len = 32
    /\ last.charges = <<<<"OnVerifyPost", 1>>>>
    /\ gas_used = 3

\* The library panicked in each of the other three.
C27_ComputeReached ==
    /\ last.op = "compute_unsealed_sector_cid" /\ last.err = "IllegalArgument"
    /\ last.arg[2] = <<128, 0>>
C27_AggregateReached ==
    /\ last.op = "verify_aggregate_seals" /\ last.err = "IllegalArgument"
    /\ last.arg[1] = [infos |-> 1, lib |-> "panic"]
C27_ReplicaReached ==
    /\ last.op = "verify_replica_update" /\ last.err = "IllegalArgument"
    /\ last.arg[1].lib = "panic"
\* A proof was verified after all the gas but one unit was used.
C27_VerifiedReached ==
    /\ last.op = "verify_post" /\ last.err = "Ok" /\ last.n = 1
    /\ gas_used = context.gas_limit

\* The sum of a field of the lengths from..Len(lens), as a number.
RECURSIVE LimbSum(_, _, _)
LimbSum(lens, hi, from) ==
    IF from > Len(lens) THEN 0
    ELSE (IF hi THEN lens[from].hi ELSE lens[from].lo) + LimbSum(lens, hi, from + 1)

\* The lengths add up, as numbers, to the length of the buffer.
CoversExactly(lens, len) ==
    LET lo == LimbSum(lens, FALSE, 1)
        hi == LimbSum(lens, TRUE, 1) + (lo \div LIMB)
    IN  hi = len.hi /\ lo % LIMB = len.lo

\* C28: verify_bls_aggregate.  With a number of public keys other than the
\* number of plaintext lengths it fails with IllegalArgument and charges
\* nothing.  Otherwise it charges on_verify_aggregate_signature(signers,
\* bytes) and, the gas being there, succeeds exactly when the lengths add up
\* (as numbers, no wrap-around) to the length of the buffer, failing with
\* IllegalArgument when they do not; when it succeeds the result is what the
\* library found, false standing for a library error.
C28_BlsAggregate ==
    [][CallStep("verify_bls_aggregate") =>
          LET num_signers == last'.arg[1]
              len == last'.arg[2]
              lens == last'.arg[3]
              lib == last'.arg[4]
              price == on_verify_aggregate_signature(num_signers, len)
          IN  /\ UNCHANGED KernelState
              /\ num_signers # Len(lens) =>
                    /\ last'.err = "IllegalArgument"
                    /\ last'.charges = <<>>
                    /\ gas_used' = gas_used
              /\ num_signers = Len(lens) =>
                    /\ last'.charges = <<<<"OnVerifyAggregateSignature", price>>>>
                    /\ last'.err = IF gas_used + price > context.gas_limit THEN "OutOfGas"
                                   ELSE IF CoversExactly(lens, len) THEN "Ok"
                                   ELSE "IllegalArgument"
                    /\ last'.err = "Ok" =>
                          last'.n = IF lib = "valid" THEN 1 ELSE 0]_vars

\* C28 witness: two signers, two plaintexts of one byte and two bytes in a
\* buffer of three, and a library error: Ok(false), three units charged.
C28_Witness ==
    /\ last.op = "verify_bls_aggregate" /\ last.err = "Ok" /\ last.n = 0
    /\ last.arg = <<2, U32(0, 3), <<U32(0, 1), U32(0, 2)>>, "error">>
    /\ last.charges = <<<<"OnVerifyAggregateSignature", 3>>>>
    /\ gas_used = 3

\* The counts differ: refused without a charge.
C28_CountsReached ==
    /\ last.op = "verify_bls_aggregate" /\ last.err = "IllegalArgument"
    /\ last.arg[1] = 1 /\ Len(last.arg[3]) = 2
    /\ gas_used = 0
\* The spans leave a byte of the buffer over.
C28_LeftOverReached ==
    /\ last.op = "verify_bls_aggregate" /\ last.err = "IllegalArgument"
    /\ last.arg[2] = U32(0, 3) /\ last.arg[3] = <<U32(0, 1), U32(0, 1)>>
    /\ gas_used = 3
\* The second length takes the offset past the largest usize.
C28_OverflowReached ==
    /\ last.op = "verify_bls_aggregate" /\ last.err = "IllegalArgument"
    /\ last.arg[2] = U32(0, 3) /\ last.arg[3] = <<U32(0, 1), U32_MAX>>
    /\ gas_used = 3
\* The signature verified.
C28_ValidReached ==
    /\ last.op = "verify_bls_aggregate" /\ last.err = "Ok" /\ last.n = 1
    /\ last.arg[3] = <<U32(0, 1), U32(0, 2)>>
RandomnessStep ==
    CallStep("get_randomness_from_tickets") \/ CallStep("get_randomness_from_beacon")

\* C29, as claimed: get_randomness_from_tickets and get_randomness_from_beacon
\* fail with IllegalArgument for every epoch after the current one, with no
\* charge and no call of the extern; for every other epoch they charge
\* on_get_randomness(current - epoch), the difference being at least 0, and
\* then call the extern, whose error comes back as IllegalArgument.
C29_FutureEpochRejected ==
    [][RandomnessStep =>
          LET rand_epoch == last'.arg[1]
              extern == last'.arg[2]
              lookback == SubI64(context.epoch, rand_epoch)
          IN  IF LessI64(context.epoch, rand_epoch)
              THEN /\ last'.err = "IllegalArgument"
                   /\ last'.charges = <<>>
                   /\ gas_used' = gas_used
              ELSE /\ ~LessI64(lookback, I64Of(0))
                   /\ last'.charges = <<<<"OnGetRandomness", on_get_randomness(lookback)>>>>
                   /\ last'.err =
                         IF gas_used + on_get_randomness(lookback) > context.gas_limit
                         THEN "OutOfGas"
                         ELSE IF extern.err THEN "IllegalArgument" ELSE "Ok"]_vars

\* C29, what the code does with a future epoch: at epoch 1 the randomness of
\* epoch 2 was asked for; the gas was charged and the extern's answer
\* returned.
C29_FutureEpochCharged ==
    /\ last.op = "get_randomness_from_tickets"
    /\ context.epoch = I64Of(1) /\ last.arg[1] = I64Of(2)
    /\ last.err = "Ok"
    /\ last.charges = <<<<"OnGetRandomness", 1>>>>
    /\ last.copied = <<1, 2>>
    /\ gas_used = 1

\* The one epoch refused before the charge: the lowest, whose distance from
\* the current epoch does not fit an i64.
C29_OverflowRefusedReached ==
    /\ last.op = "get_randomness_from_beacon"
    /\ last.arg[1] = I64_MIN
    /\ last.err = "IllegalArgument" /\ last.charges = <<>>

\* C30: tipset_cid fails with IllegalArgument for an epoch below 0 and for an
\* epoch that is the current one or later, with no charge and no call of
\* the extern.  For an epoch from 0 up to the one before the current it
\* charges on_tipset_cid(current - epoch), the difference being above 0, and
\* then asks the extern, whose error is fatal and whose answer is returned.
C30_TipsetCid ==
    [][CallStep("tipset_cid") =>
          LET epoch == last'.arg[1]
              extern == last'.arg[2]
              offset == SubI64(context.epoch, epoch)
          IN  /\ UNCHANGED KernelState
              /\ IF LessI64(epoch, I64Of(0)) \/ ~LessI64(epoch, context.epoch)
                 THEN /\ last'.err = "IllegalArgument"
                      /\ last'.charges = <<>>
                      /\ gas_used' = gas_used
                      /\ last'.cid = NoCid
                 ELSE /\ LessI64(I64Of(0), offset)
                      /\ last'.charges = <<<<"OnTipsetCid", on_tipset_cid(offset)>>>>
                      /\ last'.err =
                            IF gas_used + on_tipset_cid(offset) > context.gas_limit
                            THEN "OutOfGas"
                            ELSE IF extern.err THEN "Fatal" ELSE "Ok"
                      /\ last'.cid = IF last'.err = "Ok" THEN extern.val ELSE NoCid]_vars

\* C30 witness: at epoch 3 the tipset of epoch 1 was asked for; the lookup
\* two epochs back was charged, and the extern's failure was fatal.
C30_Witness ==
    /\ last.op = "tipset_cid" /\ last.err = "Fatal"
    /\ context.epoch = I64Of(3) /\ last.arg[1] = I64Of(1)
    /\ last.charges = <<<<"OnTipsetCid", 2>>>>
    /\ gas_used = 2

\* The current epoch was refused before any charge.
C30_CurrentReached ==
    /\ last.op = "tipset_cid" /\ last.err = "IllegalArgument"
    /\ context.epoch = I64Of(1) /\ last.arg[1] = I64Of(1)
    /\ gas_used = 0
\* A negative epoch was refused.
C30_NegativeReached ==
    /\ last.op = "tipset_cid" /\ last.err = "IllegalArgument"
    /\ last.arg[1] = I64Of(0 - 1)
    /\ last.charges = <<>>
\* The tipset of the epoch before the current one was returned.
C30_ReturnedReached ==
    /\ last.op = "tipset_cid" /\ last.err = "Ok"
    /\ context.epoch = I64Of(1) /\ last.arg[1] = I64Of(0)
    /\ last.cid = LeafCid
    /\ last.charges = <<<<"OnTipsetCid", 1>>>>
\* C31: block_link with a hash function other than blake2b-256 (0xb220) or a
\* hash length other than 32 fails with IllegalCid for every handle, known or
\* not, with no charge, no write to the block store and nothing added to the
\* reachable set; and every CID that block_link adds to the reachable set is
\* a version-1 CID with a 32-byte blake2b-256 hash and the codec of the
\* block linked.
C31_OnlyBlake2b ==
    [][CallStep("block_link") =>
          LET id == last'.arg[1]
              hash_fun == last'.arg[2]
              hash_len == last'.arg[3]
              added == Top'.blocks.reachable \ Top.blocks.reachable
          IN  /\ (hash_fun # BLAKE2B_256 \/ hash_len # 32) =>
                    /\ last'.err = "IllegalCid"
                    /\ last'.charges = <<>>
                    /\ UNCHANGED <<KernelState, gas_used>>
              /\ \A c \in added :
                    /\ c.mh_code = BLAKE2B_256 /\ c.mh_len = 32
                    /\ HasBlock(Top.blocks, id)
                    /\ c.codec = GetBlock(Top.blocks, id).codec
                    /\ c = last'.cid]_vars

\* C31 witness: block_link with sha2-256 on a handle the registry does not
\* have was refused with IllegalCid, no gas used.
C31_Witness ==
    /\ kstack # <<>>
    /\ last.op = "block_link" /\ last.err = "IllegalCid"
    /\ last.arg[2] = SHA2_256
    /\ ~HasBlock(Top.blocks, last.arg[1])
    /\ gas_used = 0

\* A hash length of 20 was refused on a block the registry has.
C31_ShortHashReached ==
    /\ kstack # <<>>
    /\ last.op = "block_link" /\ last.err = "IllegalCid"
    /\ last.arg[2] = BLAKE2B_256 /\ last.arg[3] = 20
    /\ HasBlock(Top.blocks, last.arg[1])
\* A block was linked: its CID is reachable and in the store.
C31_LinkedReached ==
    /\ kstack # <<>>
    /\ last.op = "block_link" /\ last.err = "Ok"
    /\ last.cid \in Top.blocks.reachable
    /\ StoreHas(blockstore, last.cid)
    /\ last.cid.mh_code = BLAKE2B_256 /\ last.cid.mh_len = 32
\* C32: the state root.  root() of a live actor (the gas being there)
\* succeeds, returns the state CID the state tree holds for the actor, and
\* adds just that CID to the reachable set of the calling kernel; nothing
\* else changes.  A set_root or block_open of the CID that root() has just
\* returned does not fail with NotFound.  A successful set_root writes its
\* CID as the actor's state and changes nothing else in the state tree, and
\* the state of an actor changes in no other way, except that the return of
\* an aborted call puts back what the state tree held when the call began.
C32_StateRoot ==
    [][/\ CallStep("root") =>
             LET self == state_tree[Top.actor_id]
             IN  /\ (self.exists /\ gas_used + on_get_root <= context.gas_limit) <=>
                       last'.err = "Ok"
                 /\ last'.err = "Ok" =>
                       /\ last'.cid = self.state
                       /\ kstack' = [kstack EXCEPT ![Len(kstack)].blocks.reachable =
                                                      @ \cup {self.state}]
                 /\ last'.err # "Ok" => kstack' = kstack
                 /\ UNCHANGED <<call_stack, state_tree, tx_layers, blockstore, events>>
       /\ (/\ last.op = "root" /\ last.err = "Ok"
           /\ CallStep("set_root") \/ CallStep("block_open")
           /\ last'.arg[1] = last.cid) =>
             last'.err # "NotFound"
       /\ (CallStep("set_root") /\ last'.err = "Ok") =>
             state_tree' = [state_tree EXCEPT ![Top.actor_id].state = last'.arg[1]]
       /\ \A a \in DOMAIN state_tree :
             (/\ state_tree[a].exists /\ state_tree'[a].exists
              /\ state_tree'[a].state # state_tree[a].state) =>
                \/ /\ CallStep("set_root") /\ last'.err = "Ok"
                   /\ a = Top.actor_id
                \/ /\ CalleeReturns /\ last'.exit_code # EXIT_OK
                   /\ state_tree' = tx_layers[Len(tx_layers)].tree]_vars

\* C32 witness: root() has returned a state root that the same actor wrote
\* with set_root earlier in the message: the CID of a block it had linked.
C32_Witness ==
    /\ kstack # <<>>
    /\ last.op = "root" /\ last.err = "Ok"
    /\ last.cid = MissingCid
    /\ state_tree[Top.actor_id].state = MissingCid
    /\ MissingCid \in Top.blocks.reachable

\* root() in a fresh kernel, then set_root of what it returned.
C32_SetAfterRootReached ==
    /\ kstack # <<>>
    /\ last.op = "set_root" /\ last.err = "Ok" /\ last.arg[1] = NodeCid
    /\ Top.blocks.blocks = <<>>
    /\ gas_used = 2
\* root() in a fresh kernel, then block_open of what it returned.
C32_OpenAfterRootReached ==
    /\ kstack # <<>>
    /\ last.op = "block_open" /\ last.err = "Ok" /\ last.arg[1] = NodeCid
    /\ Len(Top.blocks.blocks) = 1
    /\ gas_used = 4
\* An actor called itself; the callee wrote a new state root and aborted;
\* the state root is the old one again.
C32_RevertedReached ==
    /\ Len(kstack) = 1
    /\ last.op = "send" /\ last.exit_code = USR_ABORT
    /\ last.arg[1] = Top.actor_id
    /\ gas_used = 4
    /\ state_tree[Top.actor_id].state = NodeCid
\* The number a set of bits below 31 stands for.
RECURSIVE AsNat(_)
AsNat(a) == IF a = {} THEN 0 ELSE LET i == CHOOSE i \in a : TRUE IN 2 ^ i + AsNat(a \ {i})
\* 2^n modulo m, in the integers, by squaring.
RECURSIVE PowerOfTwoMod(_, _)
PowerOfTwoMod(n, m) ==
    IF n = 0 THEN 1 % m
    ELSE LET h == PowerOfTwoMod(n \div 2, m)
         IN  (h * h * (IF n % 2 = 1 THEN 2 ELSE 1)) % m
\* (2^64 - sum) mod p for small sum and p, in the integers.
ResidueOf(sum, p) ==
    IF sum = 0 THEN 0 ELSE (PowerOfTwoMod(U64Bits, p) + p - (sum % p)) % p
IsPowerOfTwo(a) == Cardinality(a) = 1

\* C33: the padding law.  With r the remainder of the 64-bit negation of
\* sum by the piece size p > 0, get_required_padding(sum, p) returns one pad
\* per set bit of r, each a power of two, in strictly ascending order, so
\* popcount(r) pads; the pads sum to r and so does the total returned; and
\* sum + total is a multiple of p when p is a power of two.  For lengths
\* small enough to be counted in the integers r is (2^64 - sum) mod p.
C33_PaddingLaw ==
    last.op = "get_required_padding" =>
        LET sum   == last.arg[1]
            p     == last.arg[2]
            pads  == last.ret.pads
            total == last.ret.sum
            r     == Rem(wrapping_sub({}, sum), p)
        IN  /\ LessBits(r, p)
            /\ (sum \cup p) \subseteq 0 .. 14 => AsNat(r) = ResidueOf(AsNat(sum), AsNat(p))
            /\ \A i \in DOMAIN pads : IsPowerOfTwo(pads[i])
            /\ \A i, j \in DOMAIN pads : i < j => LessBits(pads[i], pads[j])
            /\ UNION {pads[i] : i \in DOMAIN pads} = r
            /\ Len(pads) = count_ones(r)
            /\ total = r
            /\ IsPowerOfTwo(p) =>
                  Rem(AddBits(sum, total), p) = {}
            /\ (IsPowerOfTwo(p) /\ (sum \cup p) \subseteq 0 .. 29) =>
                  (AsNat(sum) + AsNat(total)) % AsNat(p) = 0

\* C33 witness: 1 byte placed and a piece of 2^62 to come: r = 2^62 - 1, the
\* pads are 1, 2, 4, ... 2^61.
C33_Witness ==
    /\ last.op = "get_required_padding"
    /\ last.arg = <<{0}, {U64Bits - 2}>>
    /\ Len(last.ret.pads) = U64Bits - 2
    /\ last.ret.pads[1] = {0} /\ last.ret.pads[2] = {1}
    /\ last.ret.pads[U64Bits - 2] = {U64Bits - 3}
    /\ last.ret.sum = 0 .. U64Bits - 3

\* A sum with the highest bit set and the largest piece size: 2^63 pads.
C33_HighBitsReached ==
    /\ last.op = "get_required_padding"
    /\ last.arg = <<{U64Bits - 1}, {U64Bits - 1}>>
    /\ last.ret.pads = <<>>
\* A piece size that is no power of two: 1 placed, pieces of 3; 2^64 - 1 is
\* a multiple of 3, there is no pad and the sum stays 1.
C33_NotAlignedReached ==
    /\ last.op = "get_required_padding"
    /\ last.arg = <<{0}, {0, 1}>>
    /\ last.ret.pads = <<>>
\* The first of a list of checks <<failed, error>> that fails, or "Ok".
FirstFailed(checks) ==
    LET failing == {i \in DOMAIN checks : checks[i][1]}
    IN  IF failing = {} THEN "Ok"
        ELSE checks[CHOOSE i \in failing : \A j \in failing : i <= j][2]

\* What emit_event looks at in the order the claim gives it: before the
\* headers, in a header that the loop enters with the offsets ko and vo, and
\* after the headers.
ChecksBefore(read_only, gas_left, e) ==
    <<<<read_only, "ReadOnly">>,
      <<gas_left < on_actor_event(Len(e.headers), Len(e.keys), Len(e.values)),
        "OutOfGas">>,
      <<Len(e.headers) > 255, "LimitExceeded">>,
      <<Len(e.values) > 8192, "LimitExceeded">>,
      <<~from_utf8_ok(e.keys), "IllegalArgument">>>>
ChecksOfHeader(h, e, ko, vo) ==
    <<<<h.flags > FLAGS_ALL, "IllegalArgument">>,
      <<h.key_len > 31, "LimitExceeded">>,
      <<h.val_len > 8192, "IllegalArgument">>,
      <<~str_get_ok(e.keys, ko, ko + h.key_len), "IllegalArgument">>,
      <<~slice_get_ok(e.values, vo, vo + h.val_len), "IllegalArgument">>,
      <<h.codec # IPLD_RAW, "IllegalCodec">>>>
ChecksAfter(e, ko, vo) ==
    <<<<ko # Len(e.keys), "IllegalArgument">>, <<vo # Len(e.values), "IllegalArgument">>>>

\* The error the claim's order gives, and the offsets the loop got to (those
\* at the header it was left at, or those it ended with): [err, ko, vo].
InClaimedOrder(read_only, gas_left, e) ==
    LET n == Len(e.headers)
        key_len(i) == e.headers[i].key_len
        val_len(i) == e.headers[i].val_len
        key_ends == RunningSums(Tabulate(key_len, 1, n), 1)
        val_ends == RunningSums(Tabulate(val_len, 1, n), 1)
        ko(i) == IF i = 1 THEN 0 ELSE key_ends[i - 1]
        vo(i) == IF i = 1 THEN 0 ELSE val_ends[i - 1]
        before == FirstFailed(ChecksBefore(read_only, gas_left, e))
        of_header(i) == FirstFailed(ChecksOfHeader(e.headers[i], e, ko(i), vo(i)))
        failing == {i \in 1 .. n : of_header(i) # "Ok"}
        first == IF failing = {} THEN n + 1
                 ELSE CHOOSE i \in failing : \A j \in failing : i <= j
    IN  IF before # "Ok" THEN [err |-> before, ko |-> 0, vo |-> 0]
        ELSE [err |-> IF first <= n THEN of_header(first)
                      ELSE FirstFailed(ChecksAfter(e, ko(n + 1), vo(n + 1))),
              ko |-> ko(first), vo |-> vo(first)]

\* C34: emit_event reports the error of the first check that fails, in the
\* order: read-only (nothing charged), the charge, the number of entries, the
\* length of the values, the keys being UTF-8, then header by header the
\* flags (IllegalArgument), key_len > 31 (LimitExceeded), val_len > 8192
\* (IllegalArgument), the key slice and the value slice (IllegalArgument),
\* the codec (IllegalCodec), and at last the two buffers being used up; and
\* it succeeds if none fails.  Every event that gets past the read-only
\* check is charged for, and the offsets the loop gets to are at most
\* 255 * 31 and 8192.
C34_CheckOrder ==
    [][CallStep("emit_event") =>
          LET e == Event(last'.arg[1], last'.arg[2], last'.arg[3])
              claimed == InClaimedOrder(Top.read_only, context.gas_limit - gas_used, e)
          IN  /\ last'.err = claimed.err
              /\ Top.read_only => last'.charges = <<>> /\ gas_used' = gas_used
              /\ ~Top.read_only => Len(last'.charges) = 1
              /\ (~Top.read_only /\ last'.err # "OutOfGas") =>
                    gas_used' = gas_used + on_actor_event(Len(e.headers), Len(e.keys),
                                                          Len(e.values))
              /\ claimed.ko <= 255 * 31
              /\ claimed.vo <= 8192]_vars

\* C34 witness: a header whose key slice runs past the keys and whose codec
\* is not IPLD_RAW was refused with IllegalArgument, after the charge.
C34_Witness ==
    /\ last.op = "emit_event" /\ last.err = "IllegalArgument"
    /\ last.arg = <<KeyPastEndBadCodec.headers, KeyPastEndBadCodec.keys,
                    KeyPastEndBadCodec.values>>
    /\ Len(last.charges) = 1

\* An event with too many entries was charged for and then refused.
C34_ChargedThenRefusedReached ==
    /\ last.op = "emit_event" /\ last.err = "LimitExceeded"
    /\ Len(last.arg[1]) = MAX_NR_ENTRIES + 1
    /\ Len(last.charges) = 1 /\ gas_used = 1
\* The same event in a read-only kernel: ReadOnly, and no charge.
C34_ReadOnlyFirstReached ==
    /\ kstack # <<>> /\ Top.read_only
    /\ last.op = "emit_event" /\ last.err = "ReadOnly"
    /\ Len(last.arg[1]) = MAX_NR_ENTRIES + 1
    /\ last.charges = <<>>
\* val_len > 8192 in a header is IllegalArgument, key_len > 31 before it is
\* LimitExceeded, a codec that is not IPLD_RAW on its own IllegalCodec.
C34_ValLenReached ==
    /\ last.op = "emit_event" /\ last.err = "IllegalArgument"
    /\ last.arg[1] = Val8193BadCodec.headers
C34_KeyLenReached ==
    /\ last.op = "emit_event" /\ last.err = "LimitExceeded"
    /\ last.arg[1] = Key32Val8193.headers
C34_CodecReached ==
    /\ last.op = "emit_event" /\ last.err = "IllegalCodec"
    /\ last.arg[1] = BadCodecKeysLeftOver.headers
\* The fullest event there is was emitted: the loop ended with the offsets
\* 255 * 31 and 8192.
C34_FullestReached ==
    /\ last.op = "emit_event" /\ last.err = "Ok"
    /\ Len(last.arg[1]) = MAX_NR_ENTRIES
    /\ Len(last.arg[2]) = MAX_NR_ENTRIES * MAX_KEY_LEN
    /\ Len(last.arg[3]) = MAX_TOTAL_VALUES_LEN
\* The registries of all kernels hold at most as many blocks as the
\* capacity, and those of the kernels that wait for a callee have room for
\* one more.
RoomKept ==
    /\ \A i \in DOMAIN kstack : Len(kstack[i].blocks.blocks) <= MaxBlocks
    /\ \A i \in 1 .. Len(kstack) - 1 :
          /\ kstack[i].pending.op \in {"send", "upgrade_actor"}
          /\ ~is_full(kstack[i].blocks)

\* C35: room for the return block.  No registry ever holds more blocks
\* than the capacity.  A send or upgrade_actor that hands over to a callee
\* leaves room for one block in the caller's registry; no step of the callee
\* or of the callees below it changes the caller's kernel; and when the
\* callee returns, with or without a block, the caller's send or
\* upgrade_actor does not fail with LimitExceeded (nor fatally, which is
\* how send would report it): a returned block is in the caller's registry
\* under a new handle.
C35_RoomForReturn ==
    [][/\ RoomKept /\ RoomKept'
       /\ Len(kstack') >= Len(kstack) =>
             \A i \in 1 .. Len(kstack) - 1 : kstack'[i] = kstack[i]
       /\ CalleeReturns =>
             /\ \A i \in 1 .. Len(kstack') - 1 : kstack'[i] = kstack[i]
             /\ last'.err = "Ok"
             /\ last'.ret # NoBlock =>
                   /\ Top'.blocks.blocks =
                         Append(kstack[Len(kstack')].blocks.blocks, last'.ret)
                   /\ last'.id = FIRST_ID + Len(kstack[Len(kstack')].blocks.blocks)
             /\ last'.ret = NoBlock => Top'.blocks = kstack[Len(kstack')].blocks]_vars

\* C35 witness: a caller with one block called an actor that filled its
\* own registry and returned a block; the block is the caller's second, and
\* the caller's registry is full.
C35_Witness ==
    /\ Len(kstack) = 1
    /\ last.op = "send" /\ last.err = "Ok"
    /\ last.ret # NoBlock /\ last.id = FIRST_ID + 1
    /\ is_full(Top.blocks)
    /\ gas_used = RoomGasLimit

\* A callee with a full registry while its caller waits with one block.
C35_CalleeFullReached ==
    /\ Len(kstack) = 2
    /\ is_full(Top.blocks)
    /\ Len(kstack[1].blocks.blocks) = 1
\* The callee is the calling actor itself, called again.
C35_ReentrantReached ==
    /\ Len(kstack) = 2
    /\ kstack[1].actor_id = kstack[2].actor_id
    /\ Top.blocks.blocks # <<>>
\* A nested call: three kernels, the two that wait with room for a block.
C35_NestedReached ==
    /\ Len(kstack) = 3
    /\ kstack[1].blocks.blocks # <<>>
\* upgrade_actor has returned with a block.
C35_UpgradeReturnedReached ==
    /\ last.op = "upgrade_actor" /\ last.err = "Ok" /\ last.phase = "done"
    /\ last.ret # NoBlock
    /\ Len(kstack) = 1
\* The actor of the running kernel is gone from the state tree.
SelfDeleted == kstack # <<>> /\ ~state_tree[Top.actor_id].exists

\* C36: operations on a deleted self.  In a kernel whose actor is gone,
\* root() that can pay fails with IllegalOperation; set_root of a reachable
\* CID that can pay, in a kernel that may write, fails with
\* IllegalOperation; upgrade_actor that gets past its own checks (the kernel
\* may write, the call stack allows it, the parameters handle is good, the
\* registry has room) fails with IllegalOperation, no code is run and the
\* transaction it began is gone again; and after each of the three the
\* actor is still gone and the state tree as it was.
C36_DeletedSelf ==
    [][SelfDeleted =>
         /\ (CallStep("root") /\ last'.err # "OutOfGas") =>
               last'.err = "IllegalOperation"
         /\ (/\ CallStep("set_root") /\ ~Top.read_only /\ last'.err # "OutOfGas"
             /\ is_reachable(Top.blocks, last'.arg[1])) =>
               last'.err = "IllegalOperation"
         /\ (/\ CallStep("upgrade_actor")
             /\ ~Top.read_only
             /\ ~UpgradeForbidden(call_stack, Top.actor_id)
             /\ last'.arg[2] = NO_DATA_BLOCK_ID \/ HasBlock(Top.blocks, last'.arg[2])
             /\ ~is_full(Top.blocks)) =>
               /\ last'.err = "IllegalOperation"
               /\ last'.phase = "done"
               /\ Len(kstack') = Len(kstack)
               /\ Top'.pending = Top.pending
         /\ (CallStep("root") \/ CallStep("set_root") \/ CallStep("upgrade_actor")) =>
               /\ last'.err # "Ok"
               /\ SelfDeleted'
               /\ UNCHANGED <<state_tree, tx_layers, call_stack, events, blockstore>>
               /\ Len(kstack') = Len(kstack)]_vars

\* C36 witness: an actor read its state root, deleted itself, and its
\* set_root of the CID it had read was refused with IllegalOperation.
C36_Witness ==
    /\ SelfDeleted
    /\ Len(kstack) = 1
    /\ last.op = "set_root" /\ last.err = "IllegalOperation"
    /\ last.arg[1] \in Top.blocks.reachable

\* The actor called itself, the callee deleted the actor and returned: the
\* caller goes on as an actor that is gone.
C36_DeletedBelowReached ==
    /\ SelfDeleted
    /\ Len(kstack) = 1
    /\ last.op = "send" /\ last.err = "Ok" /\ last.exit_code = EXIT_OK
    /\ last.arg[1] = Top.actor_id
    /\ gas_used < GoneGasLimit
\* upgrade_actor of an actor that deleted itself.
C36_UpgradeRefusedReached ==
    /\ SelfDeleted
    /\ last.op = "upgrade_actor" /\ last.err = "IllegalOperation"
    /\ tx_layers = <<>>
\* The callee that deleted the actor aborted: the actor is there again and
\* its root() succeeds.
C36_AbortedBelowReached ==
    /\ Len(kstack) = 1 /\ ~SelfDeleted
    /\ last.op = "root" /\ last.err = "Ok"
    /\ gas_used = GoneGasLimit
\* The sizes of the first n entries of a layout, added up: the offset at
\* which entry n + 1 starts.
RECURSIVE SizesOf(_, _, _)
SizesOf(layout, from, to) ==
    IF from > to THEN {}
    ELSE IF from = to THEN layout[from].size
    ELSE LET m == (from + to) \div 2
         IN  AddBits(SizesOf(layout, from, m), SizesOf(layout, m + 1, to))
OffsetAfter(layout, n) == SizesOf(layout, 1, n)
\* x is a multiple of the power of two p.
MultipleOf(x, p) == \A i \in x : \A j \in p : i >= j
\* The entries of a layout that are not zero pieces, in their order.
GivenOf(layout) == SelectSeq(layout, LAMBDA e : ~e.zero)

\* C37: the layout of a sector.  For no pieces it is one zero piece of the
\* size of the sector.  For pieces whose sizes are powers of two, the list
\* handed to the proof library holds the pieces given, all of them and in
\* their order, with zero pieces between; every entry, piece or pad, starts
\* at a multiple of its own size; the sizes add up to a multiple of the
\* sector size, and to the sector size itself when the pieces with their
\* pads fit in it.
C37_SectorLayout ==
    last.op = "compute_unsealed_sector_cid" =>
        LET ssize  == last.arg[1]
            pieces == last.arg[2]
            layout == last.ret
            total  == OffsetAfter(layout, Len(layout))
            \* where the last piece given ends
            ending == CHOOSE n \in DOMAIN layout :
                         ~layout[n].zero /\ \A m \in n + 1 .. Len(layout) : layout[m].zero
        IN  /\ pieces = <<>> => layout = <<ZeroPiece(ssize)>>
            /\ (pieces # <<>> /\ \A i \in DOMAIN pieces : IsPowerOfTwo(pieces[i])) =>
                  /\ GivenOf(layout) = [i \in DOMAIN pieces |-> GivenPiece(pieces[i])]
                  /\ \A n \in DOMAIN layout :
                        /\ IsPowerOfTwo(layout[n].size)
                        /\ MultipleOf(OffsetAfter(layout, n - 1), layout[n].size)
                  /\ total # {} /\ MultipleOf(total, ssize)
                  /\ ~LessBits(ssize, OffsetAfter(layout, ending)) => total = ssize

\* C37 witness: pieces of 128, 512 and 128 bytes in a sector of 2 KiB: a
\* pad of 128 and one of 256 bring the second piece to 512, and pads of
\* 128, 256 and 512 fill the sector after the third.
C37_Witness ==
    /\ last.op = "compute_unsealed_sector_cid"
    /\ last.arg = <<{11}, <<{7}, {9}, {7}>>>>
    /\ last.ret = <<GivenPiece({7}), ZeroPiece({7}), ZeroPiece({8}), GivenPiece({9}),
                    GivenPiece({7}), ZeroPiece({7}), ZeroPiece({8}), ZeroPiece({9})>>

\* No pieces: one zero piece of 8 MiB.
C37_EmptyReached ==
    /\ last.op = "compute_unsealed_sector_cid"
    /\ last.arg = <<{23}, <<>>>>
    /\ last.ret = <<ZeroPiece({23})>>
\* Pieces that do not fit: three of 1024 bytes in a sector of 2 KiB take two
\* sectors.
C37_TwoSectorsReached ==
    /\ last.op = "compute_unsealed_sector_cid"
    /\ last.arg = <<{11}, <<{10}, {10}, {10}>>>>
    /\ OffsetAfter(last.ret, Len(last.ret)) = {12}

\* The kernels that hold the CallManager: those that are not inside a send
\* or an upgrade_actor of their own.
Holders == {i \in DOMAIN kstack : kstack[i].pending = NoPending}

\* One kernel holds the CallManager, the one called last; every other
\* kernel waits in the send or upgrade_actor that called the next one.
OneHolder ==
    /\ kstack # <<>>
    /\ Holders = {Len(kstack)}
    /\ \A i \in 1 .. Len(kstack) - 1 : kstack[i].pending.op \in {"send", "upgrade_actor"}

\* What a step does to the kernels.  A kernel that waits is not touched.
\* A syscall that calls puts one kernel on top and leaves the caller
\* waiting in that syscall; any other syscall is the holder's and leaves the
\* stack as high as it was; a return takes the kernel on top away and
\* resumes the one right under it, in the very send or upgrade_actor it
\* waited in, which is then over.
HolderSteps ==
    LET n == Len(kstack)
    IN  /\ Len(kstack') \in {n - 1, n, n + 1}
        /\ \A i \in 1 .. n - 1 : i < Len(kstack') => kstack'[i] = kstack[i]
        /\ Spawns =>
              /\ last'.op \in {"send", "upgrade_actor"} /\ last'.phase = "called"
              /\ kstack'[n] = [kstack[n] EXCEPT !.pending = [op |-> last'.op, arg |-> last'.arg]]
              /\ kstack'[n + 1].caller = IF last'.op = "send" THEN kstack[n].actor_id
                                         ELSE kstack[n].caller
              /\ Len(call_stack') = Len(call_stack) + 1
        /\ Len(kstack') = n =>
              /\ last'.phase # "called"
              /\ kstack'[n].pending = NoPending
        /\ CalleeReturns =>
              /\ last'.op = kstack[n - 1].pending.op
              /\ last'.arg = kstack[n - 1].pending.arg
              /\ last'.phase = "done"
              /\ kstack'[n - 1] = [kstack[n - 1] EXCEPT !.pending = NoPending,
                                                        !.blocks = kstack'[n - 1].blocks]
              /\ Len(call_stack') = Len(call_stack) - 1

\* C38: exclusive ownership of the CallManager.  At every moment exactly
\* one kernel of the stack holds the CallManager and makes syscalls, the one
\* called last; send and upgrade_actor hand it to the callee and get it back
\* when the callee returns, so that a caller makes no syscall and is not
\* changed between the two; calls and returns are nested, the kernel called
\* last returns first and to the syscall that called it, which is over
\* then and is not returned to again; and every kernel that was called
\* returns to its caller, unless the message dies of a fatal error.
C38_ExclusiveOwner ==
    /\ []OneHolder
    /\ [][HolderSteps]_vars
    /\ \A d \in 1 .. OwnerMaxDepth :
          (Len(kstack) > d) ~> (Len(kstack) = d \/ last.err = "Fatal")

\* C38 witness: the first kernel called a second, which called a third;
\* the third returned to the send of the second, while the first still
\* waits in its own.
C38_Witness ==
    /\ Len(kstack) = 2
    /\ last.op = "send" /\ last.phase = "done" /\ last.exit_code = USR_ABORT
    /\ kstack[1].pending.op = "send"
    /\ Top.pending = NoPending
    /\ gas_used >= 2
\* Three kernels, two of them waiting, the lower one in an upgrade_actor.
C38_TwoWaitingReached ==
    /\ Len(kstack) = 3
    /\ kstack[1].pending.op = "upgrade_actor" /\ kstack[2].pending.op = "send"
    /\ Holders = {3}
\* All calls returned: the first kernel holds the CallManager again, after
\* an upgrade_actor of its own that called.
C38_AllReturnedReached ==
    /\ Len(kstack) = 1 /\ Holders = {1}
    /\ last.op = "upgrade_actor" /\ last.phase = "done" /\ last.err = "Ok"
    /\ gas_used >= 1
\* The holder made a syscall of its own while two kernels waited.
C38_HolderSyscallReached ==
    /\ Len(kstack) = 3 /\ last.op = "root" /\ last.err = "Ok"
\* A callee that ran out of gas returned to its caller.
C38_OutOfGasReturnedReached ==
    /\ Len(kstack) = 1
    /\ last.op = "send" /\ last.exit_code = SYS_OUT_OF_GAS
====
